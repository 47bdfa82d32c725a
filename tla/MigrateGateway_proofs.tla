----------------------- MODULE MigrateGateway_proofs -----------------------
(***************************************************************************)
(* Proofs about MigrateGateway, for any ports, addresses and VRFs and any  *)
(* number of gateways and runs.  What a plan says of its works at the      *)
(* moment it is made is kept by each of the works, and by what others do;  *)
(* from that follow what the run as a whole promises.                      *)
(***************************************************************************)
EXTENDS MigrateGateway, FiniteSetTheorems, FunctionTheorems, WellFoundedInduction,
        TLAPS

\* TypeOK without its records.
Typed ==
    /\ ifs \in [Ids -> Subinterface \cup {None, Gone}]
    /\ at \in [Ips -> Ids \cup {None, OnPort, OnVm}]
    /\ \A i, j \in Ids :
           /\ ifs[i] \in Subinterface /\ ifs[j] \in Subinterface
           /\ ifs[i].port = ifs[j].port /\ ifs[i].sfx = ifs[j].sfx
           => i = j
    /\ \A ip \in Ips : at[ip] \in Ids => ifs[at[ip]] \in Subinterface
    /\ IsCommand(cmd)
    /\ pc \in {"start", "doing", "done", "stopped", "refused", "failed"}
    /\ left \subseteq works
    /\ runs \in 1 .. cmd.maxRuns
    /\ edits \in 0 .. cmd.maxEdits
    /\ routed \in [Ips -> VRFs \cup {None}]

IsWork(w) ==
    /\ w.nr \in Nat /\ w.op \in {"create", "move", "delete"}
    /\ w.op = "create" => w.port \in Ports /\ w.sfx \in SubNumbers /\ w.vrf \in VRFs
    /\ w.op = "move" => /\ w.ip \in Ips /\ w.from \in Ids
                        /\ w.id \in Ids \cup {None} /\ w.name \in Ports \X SubNumbers
    /\ w.op = "delete" => w.id \in Ids

Base == Typed /\ \A w \in works : IsWork(w)

LEMMA TypedIsTypeOK ==
    ASSUME Typed
    PROVE  TypeOK
BY DEF Typed, TypeOK, IsNetBox

-----------------------------------------------------------------------------
\* NetBox.

LEMMA ExistsIs ==
    ASSUME Typed, NEW i \in Ids
    PROVE  /\ Exists(i) <=> ifs[i] \in Subinterface
           /\ Exists(i) => /\ ifs[i].port \in Ports /\ ifs[i].port \in Nat
                           /\ ifs[i].sfx \in SubNumbers /\ ifs[i].sfx \in Nat
                           /\ ifs[i].vrf \in VRFs
           /\ i # None /\ i \in Nat
BY NoneAssumption, NumbersAssumption DEF Typed, Exists, Subinterface

LEMMA NamedIsOne ==
    ASSUME Typed, NEW port, NEW sfx, NEW i \in Named(port, sfx)
    PROVE  /\ i \in Ids /\ Named(port, sfx) = {i}
           /\ \A goal : goal = <<port, sfx>> => IdOf(goal) = i
<1>1. ASSUME NEW j \in Named(port, sfx) PROVE j \in Ids /\ j = i
  BY <1>1, ExistsIs DEF Named, Typed
<1>2. Named(port, sfx) = {i}
  BY <1>1
<1> QED
  BY <1>1, <1>2 DEF IdOf

LEMMA IdOfIs ==
    ASSUME Typed, NEW port, NEW sfx
    PROVE  /\ IdOf(<<port, sfx>>) \in Ids \cup {None}
           /\ IdOf(<<port, sfx>>) = None <=> Named(port, sfx) = {}
           /\ IdOf(<<port, sfx>>) # None => Named(port, sfx) = {IdOf(<<port, sfx>>)}
<1>1. CASE Named(port, sfx) = {}
  BY <1>1, NoneAssumption DEF IdOf
<1>2. CASE Named(port, sfx) # {}
  <2>1. PICK i \in Named(port, sfx) : TRUE
    BY <1>2
  <2> QED
    BY <2>1, NamedIsOne, ExistsIs
<1> QED
  BY <1>1, <1>2

\* What an interface that is added changes, and what one that is deleted.
LEMMA AddIs ==
    ASSUME Typed, NEW port \in Ports, NEW sfx \in SubNumbers, NEW vrf \in VRFs,
           Add(port, sfx, vrf)
    PROVE  \E i \in Ids :
               /\ ifs[i] = None
               /\ ifs' = [ifs EXCEPT ![i] = [port |-> port, sfx |-> sfx,
                                             parent |-> port, vrf |-> vrf]]
               /\ ifs' \in [Ids -> Subinterface \cup {None, Gone}]
               /\ ifs'[i].vrf = vrf
               /\ \A j \in Ids : j # i => ifs'[j] = ifs[j] /\ (Exists(j)' <=> Exists(j))
               /\ Exists(i)' /\ ~Exists(i)
               /\ \A p, s : Named(p, s)' = IF p = port /\ s = sfx THEN {i} ELSE Named(p, s)
<1>1. PICK i \in Ids :
          /\ ifs[i] = None
          /\ ifs' = [ifs EXCEPT ![i] = [port |-> port, sfx |-> sfx,
                                        parent |-> port, vrf |-> vrf]]
  BY DEF Add
<1> DEFINE new == [port |-> port, sfx |-> sfx, parent |-> port, vrf |-> vrf]
<1>2. new \in Subinterface /\ new # None /\ new # Gone
  BY NoneAssumption DEF Subinterface
<1>3. ifs'[i] = new /\ \A j \in Ids : j # i => ifs'[j] = ifs[j]
  BY <1>1 DEF Typed
<1>4. ifs' \in [Ids -> Subinterface \cup {None, Gone}]
  BY <1>1, <1>2 DEF Typed
<1>5. \A j \in Ids : j # i => (Exists(j)' <=> Exists(j))
  BY <1>3 DEF Exists
<1>6. Exists(i)' /\ ~Exists(i)
  BY <1>1, <1>2, <1>3 DEF Exists
<1>7. \A p, s : Named(p, s)' = IF p = port /\ s = sfx THEN {i} ELSE Named(p, s)
  <2>1. Named(port, sfx) = {}
    BY DEF Add
  <2>2. ASSUME NEW p, NEW s, NEW j \in Ids, j # i
        PROVE  j \in Named(p, s)' <=> j \in Named(p, s)
    BY <1>3, <1>5, <2>2 DEF Named
  <2>3. ASSUME NEW p, NEW s
        PROVE  i \notin Named(p, s) /\ (i \in Named(p, s)' <=> p = port /\ s = sfx)
    BY <1>3, <1>6 DEF Named
  <2>4. ASSUME NEW p, NEW s
        PROVE  Named(p, s) \subseteq Ids /\ Named(p, s)' \subseteq Ids
    BY DEF Named
  <2> QED
    BY <2>1, <2>2, <2>3, <2>4
<1> QED
  BY <1>1, <1>3, <1>4, <1>5, <1>6, <1>7

LEMMA GoneIs ==
    ASSUME Typed, NEW i \in Ids, Exists(i), ifs' = [ifs EXCEPT ![i] = Gone]
    PROVE  /\ ifs' \in [Ids -> Subinterface \cup {None, Gone}]
           /\ ifs'[i] = Gone /\ ~Exists(i)'
           /\ \A j \in Ids : j # i => ifs'[j] = ifs[j] /\ (Exists(j)' <=> Exists(j))
           /\ \A p, s : Named(p, s)' = Named(p, s) \ {i}
<1>1. ifs'[i] = Gone /\ \A j \in Ids : j # i => ifs'[j] = ifs[j]
  BY DEF Typed
<1>2. ~Exists(i)' /\ \A j \in Ids : j # i => (Exists(j)' <=> Exists(j))
  BY <1>1 DEF Exists
<1>3. \A p, s : Named(p, s)' = Named(p, s) \ {i}
  BY <1>1, <1>2 DEF Named
<1> QED
  BY <1>1, <1>2, <1>3 DEF Typed

-----------------------------------------------------------------------------
\* plan().

LEMMA FoundIs ==
    ASSUME Typed
    PROVE  /\ IsFiniteSet(Found) /\ Cardinality(Found) \in Nat
           /\ \A g \in Found : g = <<g[1], g[2]>> /\ g[1] \in Nat /\ g[2] \in Ips
           /\ Gateways \subseteq Ips /\ \A g \in Found : g[2] \in Gateways
<1>1. DOMAIN cmd.vms = 1 .. Len(cmd.vms) /\ Len(cmd.vms) \in Nat
  BY DEF Typed, IsCommand
<1>2. IsFiniteSet(DOMAIN cmd.vms) /\ DOMAIN cmd.vms \subseteq Nat
  BY <1>1, FS_Interval
<1>3. IsFiniteSet((DOMAIN cmd.vms) \X Ips)
  BY <1>2, NumbersAssumption, FS_Product
<1>4. IsFiniteSet(Found)
  BY <1>3, FS_Subset DEF Found
<1>5. Cardinality(Found) \in Nat
  BY <1>4, FS_CardinalityType
<1>6. \A g \in Found : g = <<g[1], g[2]>> /\ g[1] \in Nat /\ g[2] \in Ips
  BY <1>2 DEF Found
<1> QED
  BY <1>4, <1>5, <1>6 DEF Gateways

LEMMA SourceIs ==
    ASSUME Typed, ~PlanFails, NEW ip \in Gateways
    PROVE  /\ ip \in Ips /\ at[ip] \in Ids /\ at[ip] # None
           /\ Source(ip) \in Subinterface /\ Exists(at[ip])
           /\ Source(ip).port \in Ports /\ Source(ip).port \in Nat
           /\ Source(ip).sfx \in SubNumbers /\ Source(ip).sfx \in Nat
           /\ Source(ip).vrf \in VRFs
           /\ Source(ip).port \in SourcePorts
<1>1. ip \in Ips /\ at[ip] \in Ids
  BY FoundIs DEF PlanFails, Sound
<1>2. Source(ip) \in Subinterface
  BY <1>1 DEF Typed, Source
<1>3. Source(ip).port \in SourcePorts
  BY DEF SourcePorts
<1> QED
  BY <1>1, <1>2, <1>3, ExistsIs DEF Source

\* The ports of the gateways and the targets are as many.
LEMMA SourcePortsAre ==
    ASSUME Typed, ~PlanFails
    PROVE  /\ SourcePorts \subseteq Ports /\ SourcePorts \subseteq Nat
           /\ IsFiniteSet(SourcePorts)
           /\ Cardinality(SourcePorts) = Len(cmd.targets)
           /\ DOMAIN cmd.targets = 1 .. Cardinality(SourcePorts)
           /\ \A k \in DOMAIN cmd.targets : cmd.targets[k] \in Ports
<1>1. SourcePorts \subseteq Ports /\ SourcePorts \subseteq Nat
  BY SourceIs DEF SourcePorts
<1>2. IsFiniteSet(Gateways)
  BY FoundIs, NumbersAssumption, FS_Subset
<1> DEFINE portOf == [ip \in Gateways |-> Source(ip).port]
<1>3. portOf \in Surjection(Gateways, SourcePorts)
  BY DEF Surjection, SourcePorts
<1>4. IsFiniteSet(SourcePorts)
  <2> HIDE DEF portOf
  <2> QED
    BY <1>2, <1>3, FS_Surjection
<1>5. Cardinality(SourcePorts) = Len(cmd.targets)
  BY DEF PlanFails
<1>6. DOMAIN cmd.targets = 1 .. Len(cmd.targets)
  BY DEF Typed, IsCommand
<1>7. \A k \in DOMAIN cmd.targets : cmd.targets[k] \in Ports
  BY DEF PlanFails, TreeIsSound
<1> QED
  BY <1>1, <1>4, <1>5, <1>6, <1>7

UpTo(p) == {port \in SourcePorts : port <= p}

LEMMA UpToIs ==
    ASSUME Typed, ~PlanFails, NEW p \in SourcePorts
    PROVE  /\ IsFiniteSet(UpTo(p))
           /\ Cardinality(UpTo(p)) \in 1 .. Cardinality(SourcePorts)
           /\ \A q \in SourcePorts : q < p => Cardinality(UpTo(q)) # Cardinality(UpTo(p))
<1>1. p \in Nat /\ p \in UpTo(p) /\ UpTo(p) \subseteq SourcePorts
  BY SourcePortsAre DEF UpTo
<1>2. /\ IsFiniteSet(UpTo(p)) /\ Cardinality(UpTo(p)) <= Cardinality(SourcePorts)
      /\ Cardinality(UpTo(p)) \in Nat /\ Cardinality(SourcePorts) \in Nat
  BY <1>1, SourcePortsAre, FS_Subset, FS_CardinalityType
<1>3. Cardinality(UpTo(p)) # 0
  BY <1>1, <1>2, FS_EmptySet
<1>4. ASSUME NEW q \in SourcePorts, q < p
      PROVE  Cardinality(UpTo(q)) # Cardinality(UpTo(p))
  <2>1. q \in Nat /\ p \notin UpTo(q)
    BY <1>1, <1>4, SourcePortsAre DEF UpTo
  <2>2. UpTo(q) \subseteq UpTo(p)
    <3>1. ASSUME NEW n \in SourcePorts, n <= q PROVE n <= p
      BY <1>1, <1>4, <2>1, <3>1, SourcePortsAre
    <3> QED
      BY <3>1 DEF UpTo
  <2> QED
    BY <1>1, <1>2, <2>1, <2>2, FS_Subset
<1> QED
  BY <1>2, <1>3, <1>4

LEMMA GoalIs ==
    ASSUME Typed, ~PlanFails, NEW ip \in Gateways
    PROVE  /\ Goal(ip) = <<TargetOf(ip), Source(ip).sfx>>
           /\ Goal(ip)[1] = TargetOf(ip) /\ Goal(ip)[2] = Source(ip).sfx
           /\ TargetOf(ip) \in Ports /\ Goal(ip) \in Ports \X SubNumbers
           /\ IdOf(Goal(ip)) \in Ids \cup {None}
           /\ IdOf(Goal(ip)) = None <=> Named(TargetOf(ip), Source(ip).sfx) = {}
           /\ IdOf(Goal(ip)) # None =>
                  Named(TargetOf(ip), Source(ip).sfx) = {IdOf(Goal(ip))}
<1>1. Cardinality(UpTo(Source(ip).port)) \in 1 .. Cardinality(SourcePorts)
  BY SourceIs, UpToIs
<1>2. TargetOf(ip) = cmd.targets[Cardinality(UpTo(Source(ip).port))]
  BY DEF TargetOf, UpTo
<1>3. TargetOf(ip) \in Ports
  BY <1>1, <1>2, SourcePortsAre
<1>4. Goal(ip) = <<TargetOf(ip), Source(ip).sfx>>
  BY DEF Goal
<1> QED
  BY <1>3, <1>4, SourceIs, IdOfIs

\* The order of the gateways is total, and Rank counts along it.
LEMMA SoonerIsTotal ==
    ASSUME Typed, ~PlanFails, NEW g \in Found, NEW h \in Found
    PROVE  /\ ~Sooner(g, g)
           /\ g # h => Sooner(g, h) \/ Sooner(h, g)
           /\ \A f \in Found : Sooner(f, g) /\ Sooner(g, h) => Sooner(f, h)
<1>1. \A f \in Found : /\ f = <<f[1], f[2]>> /\ f[1] \in Nat /\ f[2] \in Nat
                       /\ Source(f[2]).port \in Nat
  BY FoundIs, SourceIs, NumbersAssumption
<1>2. ~Sooner(g, g)
  BY <1>1 DEF Sooner
<1>3. g # h => Sooner(g, h) \/ Sooner(h, g)
  BY <1>1 DEF Sooner
<1>4. \A f \in Found : Sooner(f, g) /\ Sooner(g, h) => Sooner(f, h)
  BY <1>1 DEF Sooner
<1> QED
  BY <1>2, <1>3, <1>4

LEMMA RankIs ==
    ASSUME Typed, ~PlanFails, NEW g \in Found
    PROVE  /\ Rank(g) \in Nat /\ Rank(g) < Cardinality(Found)
           /\ \A h \in Found : Sooner(h, g) => Rank(h) < Rank(g)
<1> DEFINE ahead(h) == {f \in Found : Sooner(f, h)}
<1>1. \A h \in Found : /\ IsFiniteSet(ahead(h)) /\ Rank(h) = Cardinality(ahead(h))
                       /\ Cardinality(ahead(h)) \in Nat
  BY FoundIs, FS_Subset, FS_CardinalityType DEF Rank
<1>2. Rank(g) < Cardinality(Found)
  <2>1. g \notin ahead(g) /\ ahead(g) \subseteq Found
    BY SoonerIsTotal
  <2>2. Cardinality(ahead(g)) <= Cardinality(Found) /\ Cardinality(ahead(g)) # Cardinality(Found)
    BY <2>1, FoundIs, FS_Subset
  <2> QED
    BY <1>1, <2>2, FoundIs
<1>3. ASSUME NEW h \in Found, Sooner(h, g) PROVE Rank(h) < Rank(g)
  <2>1. h \in ahead(g) /\ h \notin ahead(h) /\ ahead(h) \subseteq ahead(g)
    BY <1>3, SoonerIsTotal
  <2>2. Cardinality(ahead(h)) <= Cardinality(ahead(g))
        /\ Cardinality(ahead(h)) # Cardinality(ahead(g))
    BY <1>1, <2>1, FS_Subset
  <2> QED
    BY <1>1, <2>2
<1> QED
  BY <1>1, <1>2, <1>3

LEMMA PlanIs ==
    ASSUME NEW w \in Plan
    PROVE  \/ \E g \in Found : g \in Moving /\ IsCreated(g) /\ w = CreateWork(g)
           \/ \E g \in Found : g \in Moving /\ w = MoveWork(g)
           \/ cmd.deleteEmpty /\ \E i \in Emptied : w = DeleteWork(i)
BY DEF Plan, GatewayWorks, Moving

\* What a work that creates, moves or deletes is.
LEMMA CreateIs ==
    ASSUME Typed, ~PlanFails, NEW g \in Found
    PROVE  LET w == CreateWork(g)
               ip == g[2]
           IN  /\ IsWork(w) /\ w.op = "create"
               /\ w.nr = 2 * Rank(g) /\ w.port = TargetOf(ip)
               /\ w.sfx = Source(ip).sfx /\ w.vrf = Source(ip).vrf
               /\ <<w.port, w.sfx>> = Goal(ip)
BY FoundIs, SourceIs, GoalIs, RankIs DEF CreateWork, IsWork

LEMMA MoveIs ==
    ASSUME Typed, ~PlanFails, NEW g \in Found
    PROVE  LET w == MoveWork(g)
               ip == g[2]
           IN  /\ IsWork(w) /\ w.op = "move"
               /\ w.nr = 2 * Rank(g) + 1 /\ w.ip = ip
               /\ w.from = at[ip] /\ w.id = IdOf(Goal(ip)) /\ w.name = Goal(ip)
BY FoundIs, SourceIs, GoalIs, RankIs DEF MoveWork, IsWork

LEMMA EmptiedIs ==
    ASSUME Typed, ~PlanFails
    PROVE  /\ IsFiniteSet(Emptied)
           /\ \A i \in Emptied :
                  /\ i \in Ids /\ Exists(i)
                  /\ \E g \in Moving : i = at[g[2]]
                  /\ \A ip \in Ips : at[ip] = i => \E g \in Moving : ip = g[2]
<1>1. ASSUME NEW i \in Emptied
      PROVE  /\ i \in Ids /\ Exists(i)
             /\ \E g \in Moving : i = at[g[2]]
             /\ \A ip \in Ips : at[ip] = i => \E g \in Moving : ip = g[2]
  <2>1. \E g \in Moving : i = at[g[2]]
    BY DEF Emptied, Moved
  <2>2. i \in Ids /\ Exists(i)
    BY <2>1, FoundIs, SourceIs DEF Moving
  <2>3. \A ip \in Ips : at[ip] = i => \E g \in Moving : ip = g[2]
    BY DEF Emptied, Moved, HeldBy
  <2> QED
    BY <2>1, <2>2, <2>3
<1>2. Emptied \subseteq Ids
  BY <1>1
<1> QED
  BY <1>1, <1>2, NumbersAssumption, FS_Subset

LEMMA DeleteIs ==
    ASSUME Typed, ~PlanFails, NEW i \in Emptied
    PROVE  LET w == DeleteWork(i)
           IN  /\ IsWork(w) /\ w.op = "delete" /\ w.id = i
               /\ w.nr >= 2 * Cardinality(Found)
<1> DEFINE before == {j \in Emptied : Before(j, i)}
<1>1. Cardinality(before) \in Nat
  BY EmptiedIs, FS_Subset, FS_CardinalityType
<1> QED
  BY <1>1, EmptiedIs, FoundIs DEF DeleteWork, IsWork

LEMMA PlanTyped ==
    ASSUME Typed, ~PlanFails, NEW w \in Plan
    PROVE  IsWork(w)
BY PlanIs, CreateIs, MoveIs, DeleteIs

\* The same of the works there are: each comes from a gateway or a subinterface.
LEMMA CreatesOfPlan ==
    ASSUME Typed, ~PlanFails, NEW w \in Plan, w.op = "create"
    PROVE  \E g \in Found : g \in Moving /\ IsCreated(g) /\ w = CreateWork(g)
BY PlanIs, MoveIs, DeleteIs

LEMMA MovesOfPlan ==
    ASSUME Typed, ~PlanFails, NEW w \in Plan, w.op = "move"
    PROVE  \E g \in Found : g \in Moving /\ w = MoveWork(g)
BY PlanIs, CreateIs, DeleteIs

LEMMA DeletesOfPlan ==
    ASSUME Typed, ~PlanFails, NEW w \in Plan, w.op = "delete"
    PROVE  cmd.deleteEmpty /\ \E i \in Emptied : w = DeleteWork(i)
BY PlanIs, CreateIs, MoveIs

-----------------------------------------------------------------------------
\* The types.

NetBoxTyped ==
    /\ ifs \in [Ids -> Subinterface \cup {None, Gone}]
    /\ at \in [Ips -> Ids \cup {None, OnPort, OnVm}]
    /\ \A i, j \in Ids :
           /\ ifs[i] \in Subinterface /\ ifs[j] \in Subinterface
           /\ ifs[i].port = ifs[j].port /\ ifs[i].sfx = ifs[j].sfx
           => i = j
    /\ \A ip \in Ips : at[ip] \in Ids => ifs[at[ip]] \in Subinterface

LEMMA AddTyped ==
    ASSUME Typed, NEW port \in Ports, NEW sfx \in SubNumbers, NEW vrf \in VRFs,
           Add(port, sfx, vrf), at' = at
    PROVE  NetBoxTyped'
<1>1. PICK i \in Ids :
          /\ ifs[i] = None
          /\ ifs' = [ifs EXCEPT ![i] = [port |-> port, sfx |-> sfx,
                                        parent |-> port, vrf |-> vrf]]
          /\ ifs' \in [Ids -> Subinterface \cup {None, Gone}]
          /\ \A j \in Ids : j # i => ifs'[j] = ifs[j]
  BY AddIs
<1>2. ifs'[i].port = port /\ ifs'[i].sfx = sfx
  BY <1>1 DEF Typed
<1>3. \A j \in Ids : ifs[j] \in Subinterface => ~(ifs[j].port = port /\ ifs[j].sfx = sfx)
  BY ExistsIs DEF Add, Named
<1>4. \A j, k \in Ids :
          /\ ifs'[j] \in Subinterface /\ ifs'[k] \in Subinterface
          /\ ifs'[j].port = ifs'[k].port /\ ifs'[j].sfx = ifs'[k].sfx
          => j = k
  BY <1>1, <1>2, <1>3 DEF Typed
<1>5. \A ip \in Ips : at[ip] \in Ids => ifs'[at[ip]] \in Subinterface
  BY <1>1, NoneAssumption DEF Typed
<1>6. at \in [Ips -> Ids \cup {None, OnPort, OnVm}]
  BY DEF Typed
<1> QED
  BY <1>1, <1>4, <1>5, <1>6 DEF NetBoxTyped

LEMMA GoneTyped ==
    ASSUME Typed, NEW i \in Ids, Exists(i), ifs' = [ifs EXCEPT ![i] = Gone],
           at' = [ip \in Ips |-> IF at[ip] = i THEN None ELSE at[ip]]
    PROVE  NetBoxTyped'
<1>1. /\ ifs' \in [Ids -> Subinterface \cup {None, Gone}]
      /\ ifs'[i] = Gone /\ \A j \in Ids : j # i => ifs'[j] = ifs[j]
  BY GoneIs
<1>2. Gone \notin Subinterface /\ None \notin Ids
  BY NoneAssumption
<1>3. \A j, k \in Ids :
          /\ ifs'[j] \in Subinterface /\ ifs'[k] \in Subinterface
          /\ ifs'[j].port = ifs'[k].port /\ ifs'[j].sfx = ifs'[k].sfx
          => j = k
  BY <1>1, <1>2 DEF Typed
<1>4. at' \in [Ips -> Ids \cup {None, OnPort, OnVm}]
  BY DEF Typed
<1>5. \A ip \in Ips : at'[ip] \in Ids => ifs'[at'[ip]] \in Subinterface
  BY <1>1, <1>2 DEF Typed
<1> QED
  BY <1>1, <1>3, <1>4, <1>5 DEF NetBoxTyped

LEMMA BaseInit ==
    ASSUME Init
    PROVE  Base
<1>1. PICK s \in Situations : ifs = s.ifs /\ at = s.at /\ cmd = s.cmd
  BY DEF Init
<1>2. IsNetBox(s) /\ IsCommand(s.cmd)
  BY SituationsAssumption
<1>3. NetBoxTyped
  BY <1>1, <1>2 DEF IsNetBox, NetBoxTyped
<1>4. routed \in [Ips -> VRFs \cup {None}]
  BY <1>3 DEF Init, Routing, NetBoxTyped, Subinterface
<1>5. runs \in 1 .. cmd.maxRuns /\ edits \in 0 .. cmd.maxEdits
  BY <1>1, <1>2 DEF Init, IsCommand
<1>6. IsCommand(cmd)
  BY <1>1, <1>2
<1>7. pc = "start" /\ works = {} /\ left = {}
  BY DEF Init
<1> QED
  BY <1>3, <1>4, <1>5, <1>6, <1>7 DEF NetBoxTyped, Base, Typed

LEMMA BaseStep ==
    ASSUME Base, [Next]_vars
    PROVE  Base'
<1> USE DEF Base
<1>0. NetBoxTyped
  BY DEF Typed, NetBoxTyped
<1>1. ASSUME NetBoxTyped', cmd' = cmd, routed' \in [Ips -> VRFs \cup {None}],
             runs' \in 1 .. cmd.maxRuns, edits' \in 0 .. cmd.maxEdits,
             works' = works, left' \subseteq left,
             pc' \in {"start", "doing", "done", "stopped", "refused", "failed"}
      PROVE  Base'
  <2>1. IsCommand(cmd')
    BY <1>1 DEF Typed
  <2>2. Typed'
    BY <1>1, <2>1 DEF Typed, NetBoxTyped
  <2>3. \A w \in works' : IsWork(w)
    BY <1>1
  <2> QED
    BY <2>2, <2>3
<1>2. CASE PlanRun
  <2>1. /\ ifs' = ifs /\ at' = at /\ cmd' = cmd /\ runs' = runs /\ edits' = edits
        /\ routed' = Routing /\ left' = works'
        /\ pc' \in {"start", "doing", "done", "stopped", "refused", "failed"}
    BY <1>2 DEF PlanRun
  <2>2. \A w \in works' : IsWork(w)
    BY <1>2, PlanTyped DEF PlanRun
  <2>3. Routing \in [Ips -> VRFs \cup {None}]
    BY DEF Routing, Typed, Subinterface
  <2>4. Typed'
    BY <2>1, <2>3 DEF Typed
  <2> QED
    BY <2>2, <2>4
<1>3. ASSUME NEW w \in left, CreateInterface(w) PROVE Base'
  <2>1. w.port \in Ports /\ w.sfx \in SubNumbers /\ w.vrf \in VRFs
    BY <1>3 DEF CreateInterface, IsWork, Typed
  <2>2. NetBoxTyped'
    BY <1>3, <2>1, AddTyped DEF CreateInterface
  <2> QED
    BY <1>1, <1>3, <2>2 DEF CreateInterface, Perform, Typed
<1>4. ASSUME NEW w \in left, ReassignIPAddress(w) PROVE Base'
  <2>1. w.ip \in Ips /\ Resolved(w) \in Ids /\ ifs[Resolved(w)] \in Subinterface
    BY <1>4, ExistsIs DEF ReassignIPAddress, IsWork, Typed, Exists
  <2>2. /\ ifs' = ifs /\ at' \in [Ips -> Ids \cup {None, OnPort, OnVm}]
        /\ \A ip \in Ips : at'[ip] = IF ip = w.ip THEN Resolved(w) ELSE at[ip]
    BY <1>4, <2>1 DEF ReassignIPAddress, Typed
  <2>3. NetBoxTyped'
    BY <1>0, <2>1, <2>2 DEF NetBoxTyped
  <2> QED
    BY <1>1, <1>4, <2>3 DEF ReassignIPAddress, Perform, Typed
<1>5. ASSUME NEW w \in left, DeleteInterface(w) PROVE Base'
  <2>1. w.id \in Ids
    BY <1>5 DEF DeleteInterface, IsWork, Typed
  <2>2. NetBoxTyped'
    BY <1>5, <2>1, GoneTyped DEF DeleteInterface
  <2> QED
    BY <1>1, <1>5, <2>2 DEF DeleteInterface, Perform, Typed
<1>6. ASSUME NEW w \in left, Refused(w) PROVE Base'
  BY <1>0, <1>1, <1>6 DEF Refused, Typed, NetBoxTyped
<1>7. CASE Stop
  BY <1>0, <1>1, <1>7 DEF Stop, Typed, NetBoxTyped
<1>8. CASE Finish
  BY <1>0, <1>1, <1>8 DEF Finish, Typed, NetBoxTyped
<1>9. CASE RunAgain
  <2>1. cmd.maxRuns \in Nat /\ runs' \in 1 .. cmd.maxRuns
    BY <1>9 DEF RunAgain, Typed, IsCommand
  <2> QED
    BY <1>0, <1>1, <1>9, <2>1 DEF RunAgain, Typed, NetBoxTyped
<1>10. ASSUME NEW port \in Ports, NEW sfx \in SubNumbers, NEW vrf \in VRFs,
              SomeoneAdds(port, sfx, vrf)
       PROVE  Base'
  <2>1. NetBoxTyped'
    BY <1>10, AddTyped DEF SomeoneAdds
  <2>2. edits' \in 0 .. cmd.maxEdits
    BY <1>10 DEF SomeoneAdds, Typed, IsCommand
  <2> QED
    BY <1>1, <1>10, <2>1, <2>2 DEF SomeoneAdds, Typed
<1>11. ASSUME NEW i \in Ids, SomeoneDeletes(i) PROVE Base'
  <2>1. at' = [ip \in Ips |-> IF at[ip] = i THEN None ELSE at[ip]]
    BY <1>11 DEF SomeoneDeletes, HeldBy, Typed
  <2>2. NetBoxTyped'
    BY <1>11, <2>1, GoneTyped DEF SomeoneDeletes
  <2>3. edits' \in 0 .. cmd.maxEdits
    BY <1>11 DEF SomeoneDeletes, Typed, IsCommand
  <2> QED
    BY <1>1, <1>11, <2>2, <2>3 DEF SomeoneDeletes, Typed
<1>12. ASSUME NEW ip \in Ips, NEW i \in Ids, SomeoneAssigns(ip, i) PROVE Base'
  <2>1. ifs[i] \in Subinterface /\ ifs[i].vrf \in VRFs
    BY <1>12, ExistsIs DEF SomeoneAssigns
  <2>2. /\ ifs' = ifs /\ at' \in [Ips -> Ids \cup {None, OnPort, OnVm}]
        /\ \A other \in Ips : at'[other] = IF other = ip THEN i ELSE at[other]
    BY <1>12 DEF SomeoneAssigns, Typed
  <2>3. NetBoxTyped'
    BY <1>0, <2>1, <2>2 DEF NetBoxTyped
  <2>4. edits' \in 0 .. cmd.maxEdits /\ routed' \in [Ips -> VRFs \cup {None}]
    BY <1>12, <2>1 DEF SomeoneAssigns, Typed, IsCommand
  <2> QED
    BY <1>1, <1>12, <2>3, <2>4 DEF SomeoneAssigns, Typed
<1>13. CASE UNCHANGED vars
  BY <1>0, <1>1, <1>13 DEF vars, Typed, NetBoxTyped
<1> QED
  BY <1>2, <1>3, <1>4, <1>5, <1>6, <1>7, <1>8, <1>9, <1>10, <1>11, <1>12, <1>13 DEF Next

\* NetBox stays what it is, whatever a run does to it and wherever it ends:
\* names are unique on a device, no address is assigned to a subinterface that
\* was deleted, and what is still to be done is some of what was planned.
THEOREM TypeCorrect == Spec => []TypeOK
<1>1. Init => Base
  BY BaseInit
<1>2. Base /\ [Next]_vars => Base'
  BY BaseStep
<1>3. Base => TypeOK
  BY TypedIsTypeOK DEF Base
<1> QED
  BY <1>1, <1>2, <1>3, PTL DEF Spec

-----------------------------------------------------------------------------
\* What is known of the works, whatever happens meanwhile.

\* A move goes to a subinterface of the name it was planned for, if that is
\* still there; one address goes to one place, and addresses that go to the same
\* name go to the same subinterface; and the deletes are the last.
Known ==
    /\ \A v \in works :
           v.op = "move" /\ v.id # None =>
               /\ ifs[v.id] # None
               /\ Exists(v.id) => ifs[v.id].port = v.name[1] /\ ifs[v.id].sfx = v.name[2]
    /\ \A v, w \in works :
           v.op = "move" /\ w.op = "move" =>
               /\ v.ip = w.ip => v.name = w.name
               /\ v.name = w.name => v.id = w.id
    /\ \A v, d \in works : v.op # "delete" /\ d.op = "delete" => v.nr < d.nr

\* For the subinterfaces that are to be made, the first gateway makes them.
LEMMA FirstIs ==
    ASSUME Typed, ~PlanFails, NEW g \in Found, IdOf(Goal(g[2])) = None
    PROVE  \E f \in Found : /\ f \in Moving /\ IsCreated(f) /\ Rank(f) <= Rank(g)
                            /\ Goal(f[2]) = Goal(g[2])
<1> DEFINE going == {h \in Found : Goal(h[2]) = Goal(g[2])}
           ranks == {Rank(h) : h \in going}
<1>1. ranks \subseteq Nat /\ Rank(g) \in ranks
  BY RankIs
<1>2. PICK r \in ranks : \A m \in ranks : <<m, r>> \notin OpToRel(<, Nat)
  BY <1>1, WFMin, NatLessThanWellFounded
<1>3. ASSUME NEW m \in ranks PROVE r <= m
  <2>1. m \in Nat /\ r \in Nat /\ <<m, r>> \in Nat \X Nat
    BY <1>1
  <2>2. ~(m < r)
    BY <1>2, <2>1 DEF OpToRel
  <2> QED
    BY <2>1, <2>2
<1>4. PICK f \in going : r = Rank(f)
  OBVIOUS
<1>5. f \in Found /\ Goal(f[2]) = Goal(g[2]) /\ Rank(f) <= Rank(g) /\ Rank(f) \in Nat
  BY <1>1, <1>3, <1>4
<1>6. \A h \in Found : Sooner(h, f) => Goal(h[2]) # Goal(f[2])
  <2>1. ASSUME NEW h \in Found, Sooner(h, f), Goal(h[2]) = Goal(f[2]) PROVE FALSE
    <3>1. Rank(h) \in ranks /\ Rank(h) \in Nat
      BY <1>1, <1>5, <2>1
    <3>2. Rank(f) <= Rank(h)
      BY <1>3, <1>4, <3>1
    <3>3. Rank(h) < Rank(f)
      BY <1>5, <2>1, RankIs
    <3> QED
      BY <1>5, <3>1, <3>2, <3>3
  <2> QED
    BY <2>1
<1>7. IsCreated(f)
  BY <1>5, <1>6 DEF IsCreated
<1>8. f \in Moving
  <2>1. at[f[2]] # None
    BY <1>5, FoundIs, SourceIs
  <2> QED
    BY <1>5, <2>1 DEF Moving, Stays
<1> QED
  BY <1>5, <1>7, <1>8

\* What is to be made for a move is planned before it.
IsMadeFor(c, v) == c.op = "create" /\ c.port = v.name[1] /\ c.sfx = v.name[2] /\ c.nr < v.nr

LEMMA MadeInTime ==
    ASSUME Typed, ~PlanFails, NEW v \in Plan, v.op = "move", v.id = None
    PROVE  \E c \in Plan : IsMadeFor(c, v)
<1>1. PICK g \in Found : v = MoveWork(g)
  BY MovesOfPlan
<1>2. IdOf(Goal(g[2])) = None /\ v.name = Goal(g[2]) /\ v.nr = 2 * Rank(g) + 1
  BY <1>1, MoveIs
<1>3. PICK f \in Found : /\ f \in Moving /\ IsCreated(f) /\ Rank(f) <= Rank(g)
                         /\ Goal(f[2]) = Goal(g[2])
  BY <1>2, FirstIs
<1>4. CreateWork(f) \in Plan
  BY <1>3 DEF Plan, GatewayWorks
<1>5. Rank(f) \in Nat /\ Rank(g) \in Nat /\ Goal(f[2]) = <<TargetOf(f[2]), Source(f[2]).sfx>>
  BY RankIs, FoundIs, GoalIs
<1>6. IsMadeFor(CreateWork(f), v)
  BY <1>2, <1>3, <1>5, CreateIs DEF IsMadeFor
<1> QED
  BY <1>4, <1>6

LEMMA PlanKnown ==
    ASSUME Base, PlanRun
    PROVE  Known'
<1>0. Typed /\ ifs' = ifs /\ (works' = {} \/ (~PlanFails /\ works' = Plan))
  BY DEF Base, PlanRun
<1>1. CASE works' = {}
  BY <1>1 DEF Known
<1>2. CASE ~PlanFails /\ works' = Plan
  <2>1. ASSUME NEW v \in Plan, v.op = "move", v.id # None
        PROVE  ifs[v.id] # None /\ ifs[v.id].port = v.name[1] /\ ifs[v.id].sfx = v.name[2]
    <3>1. PICK g \in Found : v = MoveWork(g)
      BY <1>0, <1>2, <2>1, MovesOfPlan
    <3>2. v.id = IdOf(Goal(g[2])) /\ v.name = Goal(g[2])
      BY <1>0, <1>2, <3>1, MoveIs
    <3>3. v.id \in Named(v.name[1], v.name[2])
      BY <1>0, <1>2, <2>1, <3>2, FoundIs, GoalIs
    <3> QED
      BY <3>3 DEF Named, Exists
  <2>2. ASSUME NEW v \in Plan, NEW w \in Plan, v.op = "move", w.op = "move"
        PROVE  /\ v.ip = w.ip => v.name = w.name
               /\ v.name = w.name => v.id = w.id
    <3>1. PICK g \in Found : v = MoveWork(g)
      BY <1>0, <1>2, <2>2, MovesOfPlan
    <3>2. PICK h \in Found : w = MoveWork(h)
      BY <1>0, <1>2, <2>2, MovesOfPlan
    <3> QED
      BY <1>0, <1>2, <2>2, <3>1, <3>2, MoveIs
  <2>3. ASSUME NEW v \in Plan, NEW d \in Plan, v.op # "delete", d.op = "delete"
        PROVE  v.nr < d.nr
    <3>1. PICK i \in Emptied : d = DeleteWork(i)
      BY <1>0, <1>2, <2>3, DeletesOfPlan
    <3>2. d.nr >= 2 * Cardinality(Found) /\ d.nr \in Nat
      BY <1>0, <1>2, <3>1, DeleteIs DEF IsWork
    <3>3. \E g \in Found : v = CreateWork(g) \/ v = MoveWork(g)
      BY <1>0, <1>2, <2>3, PlanIs, DeleteIs
    <3>4. PICK g \in Found : v.nr = 2 * Rank(g) \/ v.nr = 2 * Rank(g) + 1
      BY <1>0, <1>2, <3>3, CreateIs, MoveIs
    <3> QED
      BY <1>0, <1>2, <3>2, <3>4, RankIs, FoundIs
  <2>4. \A v \in works' :
            v.op = "move" /\ v.id # None =>
                /\ ifs'[v.id] # None
                /\ Exists(v.id)' => ifs'[v.id].port = v.name[1] /\ ifs'[v.id].sfx = v.name[2]
    BY <1>0, <1>2, <2>1
  <2>5. \A v, w \in works' :
            v.op = "move" /\ w.op = "move" =>
                /\ v.ip = w.ip => v.name = w.name
                /\ v.name = w.name => v.id = w.id
    BY <1>2, <2>2
  <2>6. \A v, d \in works' : v.op # "delete" /\ d.op = "delete" => v.nr < d.nr
    BY <1>2, <2>3
  <2> QED
    BY <2>4, <2>5, <2>6 DEF Known
<1> QED
  BY <1>0, <1>1, <1>2

\* Between plans the list stays, and no id is used for something else.
LEMMA StepIs ==
    ASSUME Base, [Next]_vars, ~PlanRun
    PROVE  /\ works' = works /\ left' \subseteq left /\ cmd' = cmd
           /\ edits \in Nat /\ edits' \in Nat /\ edits <= edits'
           /\ \A i \in Ids : ifs[i] # None => ifs'[i] = ifs[i] \/ ifs'[i] = Gone
<1>0. edits \in Nat /\ Typed
  BY DEF Base, Typed, IsCommand
<1> DEFINE kept == \A i \in Ids : ifs[i] # None => ifs'[i] = ifs[i] \/ ifs'[i] = Gone
<1>1. ASSUME NEW port \in Ports, NEW sfx \in SubNumbers, NEW vrf \in VRFs, Add(port, sfx, vrf)
      PROVE  kept
  BY <1>0, <1>1, AddIs
<1>2. ASSUME NEW i \in Ids, ifs' = [ifs EXCEPT ![i] = Gone]
      PROVE  kept
  BY <1>0, <1>2 DEF Typed
<1>3. ASSUME NEW w \in left, CreateInterface(w)
      PROVE  kept /\ works' = works /\ left' \subseteq left /\ UNCHANGED <<cmd, edits>>
  <2>1. w.port \in Ports /\ w.sfx \in SubNumbers /\ w.vrf \in VRFs
    BY <1>3 DEF CreateInterface, Base, IsWork, Typed
  <2> QED
    BY <1>1, <1>3, <2>1 DEF CreateInterface, Perform
<1>4. ASSUME NEW w \in left, ReassignIPAddress(w)
      PROVE  kept /\ works' = works /\ left' \subseteq left /\ UNCHANGED <<cmd, edits>>
  BY <1>4 DEF ReassignIPAddress, Perform
<1>5. ASSUME NEW w \in left, DeleteInterface(w)
      PROVE  kept /\ works' = works /\ left' \subseteq left /\ UNCHANGED <<cmd, edits>>
  <2>1. w.id \in Ids
    BY <1>5 DEF DeleteInterface, Exists
  <2> QED
    BY <1>2, <1>5, <2>1 DEF DeleteInterface, Perform
<1>6. ASSUME NEW w \in left, Refused(w)
      PROVE  kept /\ works' = works /\ left' \subseteq left /\ UNCHANGED <<cmd, edits>>
  BY <1>6 DEF Refused
<1>7. ASSUME Stop \/ Finish \/ RunAgain \/ UNCHANGED vars
      PROVE  kept /\ works' = works /\ left' \subseteq left /\ UNCHANGED <<cmd, edits>>
  BY <1>7 DEF Stop, Finish, RunAgain, vars
<1>8. ASSUME NEW port \in Ports, NEW sfx \in SubNumbers, NEW vrf \in VRFs,
             SomeoneAdds(port, sfx, vrf)
      PROVE  kept /\ works' = works /\ left' \subseteq left /\ cmd' = cmd
             /\ edits' = edits + 1
  BY <1>1, <1>8 DEF SomeoneAdds
<1>9. ASSUME NEW i \in Ids, SomeoneDeletes(i)
      PROVE  kept /\ works' = works /\ left' \subseteq left /\ cmd' = cmd
             /\ edits' = edits + 1
  BY <1>2, <1>9 DEF SomeoneDeletes
<1>10. ASSUME NEW ip \in Ips, NEW i \in Ids, SomeoneAssigns(ip, i)
       PROVE  kept /\ works' = works /\ left' \subseteq left /\ cmd' = cmd
              /\ edits' = edits + 1
  BY <1>10 DEF SomeoneAssigns
<1>11. /\ kept /\ works' = works /\ left' \subseteq left /\ cmd' = cmd
       /\ edits' = edits \/ edits' = edits + 1
  <2> HIDE DEF kept
  <2> QED
    BY <1>3, <1>4, <1>5, <1>6, <1>7, <1>8, <1>9, <1>10 DEF Next
<1> QED
  BY <1>0, <1>11

LEMMA KnownStep ==
    ASSUME Base, Known, [Next]_vars
    PROVE  Known'
<1>1. CASE PlanRun
  BY <1>1, PlanKnown
<1>2. CASE ~PlanRun
  <2>1. /\ works' = works
        /\ \A i \in Ids : ifs[i] # None => ifs'[i] = ifs[i] \/ ifs'[i] = Gone
    BY <1>2, StepIs
  <2>2. Gone # None
    BY NoneAssumption
  <2>3. ASSUME NEW v \in works, v.op = "move", v.id # None
        PROVE  /\ ifs'[v.id] # None
               /\ Exists(v.id)' => ifs'[v.id].port = v.name[1] /\ ifs'[v.id].sfx = v.name[2]
    <3>1. v.id \in Ids
      BY <2>3 DEF Base, IsWork
    <3> QED
      BY <2>1, <2>2, <2>3, <3>1 DEF Known, Exists
  <2> QED
    BY <2>1, <2>3 DEF Known
<1> QED
  BY <1>1, <1>2

LEMMA KnownInit ==
    ASSUME Init
    PROVE  Known
BY DEF Init, Known

\* When the work that comes next is a delete, the others are deletes too.
LEMMA DeletesAreLast ==
    ASSUME Base, Known, NEW d \in left, IsNext(d), d.op = "delete", NEW v \in left
    PROVE  v.op = "delete"
<1>1. d.nr <= v.nr /\ v \in works /\ d \in works
  BY DEF IsNext, Base, Typed
<1>2. d.nr \in Nat /\ v.nr \in Nat
  BY <1>1 DEF Base, IsWork
<1> QED
  BY <1>1, <1>2 DEF Known

-----------------------------------------------------------------------------
\* NetBox refuses nothing, as long as nobody else writes.

Free ==
    /\ \A c \in left : c.op = "create" => Named(c.port, c.sfx) = {}
    /\ \A c, b \in left :
           /\ c.op = "create" /\ b.op = "create" /\ c.port = b.port /\ c.sfx = b.sfx
           => c = b
    /\ \A v \in left : v.op = "move" /\ v.id # None => Exists(v.id)
    /\ \A v \in left :
           v.op = "move" /\ v.id = None =>
               \/ Named(v.name[1], v.name[2]) # {}
               \/ \E c \in left : IsMadeFor(c, v)
    /\ \A d \in left : d.op = "delete" => Exists(d.id)
    /\ \A d, b \in left : d.op = "delete" /\ b.op = "delete" /\ d.id = b.id => d = b

Unhindered == edits = 0 => Free /\ pc # "refused"

LEMMA PlanFree ==
    ASSUME Base, PlanRun
    PROVE  Free'
<1>0. /\ Typed /\ ifs' = ifs /\ left' = works'
      /\ (works' = {} \/ (~PlanFails /\ works' = Plan))
  BY DEF Base, PlanRun
<1>1. CASE works' = {}
  BY <1>0, <1>1 DEF Free
<1>2. CASE ~PlanFails /\ works' = Plan
  <2>0. \A p, n : Named(p, n)' = Named(p, n)
    BY <1>0 DEF Named, Exists
  <2>1. ASSUME NEW c \in Plan, c.op = "create"
        PROVE  Named(c.port, c.sfx) = {}
    <3>1. PICK g \in Found : g \in Moving /\ IsCreated(g) /\ c = CreateWork(g)
      BY <1>0, <1>2, <2>1, CreatesOfPlan
    <3>2. IdOf(Goal(g[2])) = None /\ c.port = TargetOf(g[2]) /\ c.sfx = Source(g[2]).sfx
      BY <1>0, <1>2, <3>1, CreateIs DEF IsCreated
    <3> QED
      BY <1>0, <1>2, <3>2, FoundIs, GoalIs
  <2>2. ASSUME NEW c \in Plan, NEW b \in Plan, c.op = "create", b.op = "create",
               c.port = b.port, c.sfx = b.sfx
        PROVE  c = b
    <3>1. PICK g \in Found : g \in Moving /\ IsCreated(g) /\ c = CreateWork(g)
      BY <1>0, <1>2, <2>2, CreatesOfPlan
    <3>2. PICK h \in Found : h \in Moving /\ IsCreated(h) /\ b = CreateWork(h)
      BY <1>0, <1>2, <2>2, CreatesOfPlan
    <3>3. Goal(g[2]) = Goal(h[2])
      BY <1>0, <1>2, <2>2, <3>1, <3>2, CreateIs
    <3>4. ~Sooner(g, h) /\ ~Sooner(h, g)
      BY <3>1, <3>2, <3>3 DEF IsCreated
    <3> QED
      BY <1>0, <1>2, <3>1, <3>2, <3>4, SoonerIsTotal
  <2>3. ASSUME NEW v \in Plan, v.op = "move", v.id # None
        PROVE  Exists(v.id)
    <3>1. PICK g \in Found : v = MoveWork(g)
      BY <1>0, <1>2, <2>3, MovesOfPlan
    <3>2. v.id = IdOf(Goal(g[2]))
      BY <1>0, <1>2, <3>1, MoveIs
    <3>3. v.id \in Named(TargetOf(g[2]), Source(g[2]).sfx)
      BY <1>0, <1>2, <2>3, <3>2, FoundIs, GoalIs
    <3> QED
      BY <3>3 DEF Named
  <2>4. ASSUME NEW v \in Plan, v.op = "move", v.id = None
        PROVE  \E c \in Plan : IsMadeFor(c, v)
    BY <1>0, <1>2, <2>4, MadeInTime
  <2>5. ASSUME NEW d \in Plan, d.op = "delete"
        PROVE  Exists(d.id) /\ \A b \in Plan : b.op = "delete" /\ d.id = b.id => d = b
    <3>1. PICK i \in Emptied : d = DeleteWork(i)
      BY <1>0, <1>2, <2>5, DeletesOfPlan
    <3>2. d.id = i /\ Exists(i)
      BY <1>0, <1>2, <3>1, DeleteIs, EmptiedIs
    <3>3. ASSUME NEW b \in Plan, b.op = "delete", d.id = b.id PROVE d = b
      <4>1. PICK j \in Emptied : b = DeleteWork(j)
        BY <1>0, <1>2, <3>3, DeletesOfPlan
      <4> QED
        BY <1>0, <1>2, <3>1, <3>2, <3>3, <4>1, DeleteIs
    <3> QED
      BY <3>2, <3>3
  <2>6. \A v \in left' :
            v.op = "move" /\ v.id = None =>
                \/ Named(v.name[1], v.name[2])' # {}
                \/ \E c \in left' : IsMadeFor(c, v)
    BY <1>0, <1>2, <2>4
  <2>7. \A i : Exists(i)' <=> Exists(i)
    BY <1>0 DEF Exists
  <2>8. \A c \in left' : c.op = "create" => Named(c.port, c.sfx)' = {}
    BY <1>0, <1>2, <2>0, <2>1
  <2>9. \A v \in left' : v.op = "move" /\ v.id # None => Exists(v.id)'
    BY <1>0, <1>2, <2>3, <2>7
  <2>10. \A d \in left' : d.op = "delete" => Exists(d.id)'
    BY <1>0, <1>2, <2>5, <2>7
  <2>11. \A d, b \in left' : d.op = "delete" /\ b.op = "delete" /\ d.id = b.id => d = b
    BY <1>0, <1>2, <2>5
  <2>12. \A c, b \in left' :
             /\ c.op = "create" /\ b.op = "create" /\ c.port = b.port /\ c.sfx = b.sfx
             => c = b
    BY <1>0, <1>2, <2>2
  <2> QED
    BY <2>6, <2>8, <2>9, <2>10, <2>11, <2>12 DEF Free
<1> QED
  BY <1>0, <1>1, <1>2

LEMMA CreateFree ==
    ASSUME Base, Free, NEW w \in left, CreateInterface(w)
    PROVE  Free'
<1>1. w.op = "create" /\ w.port \in Ports /\ w.sfx \in SubNumbers /\ w.vrf \in VRFs
  BY DEF CreateInterface, Base, Typed, IsWork
<1>2. Typed /\ Add(w.port, w.sfx, w.vrf) /\ left' = left \ {w}
  BY DEF Base, CreateInterface, Perform
<1>3. PICK i \in Ids :
          /\ \A j \in Ids : j # i => (Exists(j)' <=> Exists(j))
          /\ Exists(i)' /\ ~Exists(i)
          /\ \A p, s : Named(p, s)' = IF p = w.port /\ s = w.sfx THEN {i} ELSE Named(p, s)
  BY <1>1, <1>2, AddIs
<1>4. \A j : Exists(j) => Exists(j)'
  BY <1>3 DEF Exists
<1>5. \A c \in left' : c.op = "create" => Named(c.port, c.sfx)' = {}
  BY <1>1, <1>2, <1>3 DEF Free
<1>6. ASSUME NEW v \in left', v.op = "move", v.id = None
      PROVE  \/ Named(v.name[1], v.name[2])' # {}
             \/ \E c \in left' : IsMadeFor(c, v)
  <2>1. CASE Named(v.name[1], v.name[2]) # {}
    BY <1>3, <2>1
  <2>2. CASE \E c \in left : IsMadeFor(c, v)
    <3>1. PICK c \in left : IsMadeFor(c, v)
      BY <2>2
    <3>2. CASE c = w
      BY <1>3, <3>1, <3>2 DEF IsMadeFor
    <3>3. CASE c # w
      BY <1>2, <3>1, <3>3
    <3> QED
      BY <3>2, <3>3
  <2> QED
    BY <1>2, <1>6, <2>1, <2>2 DEF Free
<1> QED
  BY <1>2, <1>4, <1>5, <1>6 DEF Free

LEMMA ReassignFree ==
    ASSUME Base, Free, NEW w \in left, ReassignIPAddress(w)
    PROVE  Free'
<1>1. left' = left \ {w} /\ w.op = "move" /\ ifs' = ifs
  BY DEF ReassignIPAddress, Perform
<1>2. /\ \A j : Exists(j)' <=> Exists(j)
      /\ \A p, n : Named(p, n)' = Named(p, n)
  BY <1>1 DEF Exists, Named
<1>3. \A v \in left' :
          v.op = "move" /\ v.id = None =>
              \/ Named(v.name[1], v.name[2])' # {}
              \/ \E c \in left' : IsMadeFor(c, v)
  BY <1>1, <1>2 DEF Free, IsMadeFor
<1> QED
  BY <1>1, <1>2, <1>3 DEF Free

LEMMA DeleteFree ==
    ASSUME Base, Known, Free, NEW w \in left, DeleteInterface(w)
    PROVE  Free'
<1>1. /\ left' = left \ {w} /\ w.op = "delete" /\ Exists(w.id) /\ w.id \in Ids
      /\ ifs' = [ifs EXCEPT ![w.id] = Gone]
  BY DEF DeleteInterface, Perform, Exists
<1>2. \A v \in left' : v.op = "delete"
  BY <1>1, DeletesAreLast DEF DeleteInterface
<1>3. \A j \in Ids : j # w.id => (Exists(j)' <=> Exists(j))
  BY <1>1, GoneIs DEF Base
<1>4. \A d \in left' : d.id \in Ids /\ d.id # w.id /\ Exists(d.id)
  BY <1>1, <1>2 DEF Free, Base, Typed, IsWork
<1> QED
  BY <1>1, <1>2, <1>3, <1>4 DEF Free

LEMMA FreeStaysPut ==
    ASSUME Free, ifs' = ifs, left' = left
    PROVE  Free'
<1>1. /\ \A j : Exists(j)' <=> Exists(j)
      /\ \A p, n : Named(p, n)' = Named(p, n)
  BY DEF Exists, Named
<1> QED
  BY <1>1 DEF Free

LEMMA UnhinderedStep ==
    ASSUME Base, Known, Unhindered, [Next]_vars
    PROVE  Unhindered'
<1>0. edits \in Nat
  BY DEF Base, Typed, IsCommand
<1>1. CASE PlanRun
  BY <1>1, PlanFree DEF Unhindered, PlanRun
<1>2. ASSUME NEW w \in left, CreateInterface(w) PROVE Unhindered'
  BY <1>2, CreateFree DEF Unhindered, CreateInterface, Perform
<1>3. ASSUME NEW w \in left, ReassignIPAddress(w) PROVE Unhindered'
  BY <1>3, ReassignFree DEF Unhindered, ReassignIPAddress, Perform
<1>4. ASSUME NEW w \in left, DeleteInterface(w) PROVE Unhindered'
  BY <1>4, DeleteFree DEF Unhindered, DeleteInterface, Perform
<1>5. ASSUME NEW w \in left, Refused(w) PROVE Unhindered'
  <2>1. ASSUME Free PROVE FALSE
    <3>1. CASE w.op = "create" /\ Named(w.port, w.sfx) # {}
      BY <2>1, <3>1 DEF Free
    <3>2. CASE w.op = "delete" /\ ~Exists(w.id)
      BY <2>1, <3>2 DEF Free
    <3>3. CASE w.op = "move" /\ ~Exists(Resolved(w))
      <4>1. w.id = None /\ ~Exists(IdOf(w.name))
        BY <2>1, <3>3 DEF Resolved, Free
      <4>2. Named(w.name[1], w.name[2]) = {}
        BY <4>1 DEF IdOf, Named
      <4>3. PICK c \in left : IsMadeFor(c, w)
        BY <2>1, <3>3, <4>1, <4>2 DEF Free
      <4>4. w.nr <= c.nr /\ c.nr < w.nr /\ c.nr \in Nat /\ w.nr \in Nat
        BY <1>5, <4>3 DEF Refused, IsNext, IsMadeFor, Base, Typed, IsWork
      <4> QED
        BY <4>4
    <3> QED
      BY <1>5, <3>1, <3>2, <3>3 DEF Refused
  <2>2. edits' = edits
    BY <1>5 DEF Refused
  <2> QED
    BY <2>1, <2>2 DEF Unhindered
<1>6. ASSUME Stop \/ Finish \/ RunAgain \/ UNCHANGED vars PROVE Unhindered'
  <2>1. /\ ifs' = ifs /\ left' = left /\ edits' = edits
        /\ pc # "refused" => pc' # "refused"
    BY <1>6 DEF Stop, Finish, RunAgain, vars
  <2> QED
    BY <2>1, FreeStaysPut DEF Unhindered
<1>7. ASSUME NEW port \in Ports, NEW sfx \in SubNumbers, NEW vrf \in VRFs,
             SomeoneAdds(port, sfx, vrf)
      PROVE  Unhindered'
  BY <1>0, <1>7 DEF SomeoneAdds, Unhindered
<1>8. ASSUME NEW i \in Ids, SomeoneDeletes(i) PROVE Unhindered'
  BY <1>0, <1>8 DEF SomeoneDeletes, Unhindered
<1>9. ASSUME NEW ip \in Ips, NEW i \in Ids, SomeoneAssigns(ip, i) PROVE Unhindered'
  BY <1>0, <1>9 DEF SomeoneAssigns, Unhindered
<1> QED
  BY <1>1, <1>2, <1>3, <1>4, <1>5, <1>6, <1>7, <1>8, <1>9 DEF Next

\* A run does not stand in its own way: what one work does is never the reason
\* for which NetBox refuses a later one.  The subinterface an address goes to
\* is made in time and only once, and is not deleted before.
THEOREM NoneIsRefused == Spec => []NotSelfRefused
<1>1. Init => Base /\ Known /\ Unhindered
  BY BaseInit, KnownInit DEF Init, Unhindered, Free
<1>2. Base /\ Known /\ Unhindered /\ [Next]_vars => (Base /\ Known /\ Unhindered)'
  BY BaseStep, KnownStep, UnhinderedStep
<1>3. Unhindered => NotSelfRefused
  BY DEF Unhindered, NotSelfRefused
<1> QED
  BY <1>1, <1>2, <1>3, PTL DEF Spec


-----------------------------------------------------------------------------
\* The addresses on subinterfaces that are to be deleted.

ToMove(ip) == \E v \in left : v.op = "move" /\ v.ip = ip

\* Only what is Undone goes to a subinterface that is to be deleted; the others
\* on such a one are still to be moved, or someone else assigned them to it.
\* The addresses that are listed stay assigned until they are Undone.
Apart ==
    /\ \A d, v \in works :
           d.op = "delete" /\ v.op = "move" =>
               /\ ifs[d.id] # None
               /\ v.ip \notin Undone => v.id # d.id /\ d.id \notin Named(v.name[1], v.name[2])
    /\ \A d \in left, ip \in Ips :
           d.op = "delete" /\ at[ip] = d.id =>
               ToMove(ip) \/ ip \in Undone \/ (MovesOf(ip) = {} /\ edits > 0)
    /\ \A v \in works : v.op = "move" /\ v.ip \notin Undone => at[v.ip] \in Ids
    /\ \A v \in left : v.op = "move" => at[v.ip] \in Ids

LEMMA ResolvedIs ==
    ASSUME Base, Known, NEW w \in works, w.op = "move", Exists(Resolved(w))
    PROVE  /\ Resolved(w) \in Ids /\ Resolved(w) \in Named(w.name[1], w.name[2])
           /\ w.ip \in Ips /\ w.name = <<w.name[1], w.name[2]>>
           /\ Resolved(w) = w.id \/ w.id = None
<1>1. w.ip \in Ips /\ w.name = <<w.name[1], w.name[2]>> /\ Resolved(w) \in Ids
  BY DEF Base, IsWork, Exists
<1>2. CASE w.id = None
  BY <1>1, <1>2, NoneAssumption DEF Resolved, IdOf
<1>3. CASE w.id # None
  BY <1>1, <1>3 DEF Resolved, Known, Named
<1> QED
  BY <1>1, <1>2, <1>3 DEF Resolved

\* What is Undone has a subinterface to go to.
LEMMA UndoneIs ==
    ASSUME Base, Known, NEW v \in works, v.op = "move", v.ip \in Undone
    PROVE  \E d \in works : d.op = "delete" /\ d.id = v.id /\ v.id \in Ids /\ v.id # None
<1>1. PICK w \in works : /\ w.op = "move" /\ w.ip = v.ip
                         /\ \E d \in works : d.op = "delete" /\ d.id = w.id
  BY DEF Undone
<1>2. w.id = v.id
  BY <1>1 DEF Known
<1> QED
  BY <1>1, <1>2, NoneAssumption DEF Base, IsWork

\* When the run is planned, all that is on what it is to delete is to move.
LEMMA EmptiedIsToMove ==
    ASSUME Base, PlanRun, NEW d \in left', NEW ip \in Ips, d.op = "delete", at'[ip] = d.id
    PROVE  ToMove(ip)'
<1>0. Typed /\ at' = at /\ left' = Plan /\ ~PlanFails
  BY DEF Base, PlanRun
<1>1. PICK i \in Emptied : d = DeleteWork(i)
  BY <1>0, DeletesOfPlan
<1>2. d.id = i
  BY <1>0, <1>1, DeleteIs
<1>3. PICK g \in Moving : ip = g[2]
  BY <1>0, <1>2, EmptiedIs
<1>4. MoveWork(g) \in Plan /\ g \in Found
  BY DEF Plan, GatewayWorks, Moving
<1> QED
  BY <1>0, <1>3, <1>4, MoveIs DEF ToMove

LEMMA PlanApart ==
    ASSUME Base, PlanRun
    PROVE  Apart'
<1>0. /\ Typed /\ ifs' = ifs /\ at' = at /\ left' = works'
      /\ (works' = {} \/ (~PlanFails /\ works' = Plan))
  BY DEF Base, PlanRun
<1>00. \A p, s : Named(p, s)' = Named(p, s)
  BY <1>0 DEF Named, Exists
<1>1. CASE works' = {}
  BY <1>0, <1>1 DEF Apart
<1>2. CASE ~PlanFails /\ works' = Plan
  <2>1. ASSUME NEW d \in Plan, NEW v \in Plan, d.op = "delete", v.op = "move"
        PROVE  /\ ifs[d.id] # None
               /\ v.ip \notin Undone' => v.id # d.id /\ d.id \notin Named(v.name[1], v.name[2])
    <3>1. PICK i \in Emptied : d = DeleteWork(i)
      BY <1>0, <1>2, <2>1, DeletesOfPlan
    <3>2. d.id = i /\ i \in Ids /\ Exists(i)
      BY <1>0, <1>2, <3>1, DeleteIs, EmptiedIs
    <3>3. PICK f \in Found : f \in Moving /\ i = at[f[2]]
      BY <1>0, <1>2, EmptiedIs DEF Moving
    <3>4. MoveWork(f) \in Plan /\ MoveWork(f).op = "move" /\ MoveWork(f).from = i
      BY <1>0, <1>2, <3>3, MoveIs DEF Plan, GatewayWorks
    <3>5. ASSUME v.id = d.id PROVE v.ip \in Undone'
      BY <1>2, <2>1, <3>2, <3>4, <3>5 DEF Undone
    <3>6. PICK g \in Found : v = MoveWork(g)
      BY <1>0, <1>2, <2>1, MovesOfPlan
    <3>7. v.id = IdOf(Goal(g[2])) /\ v.name = Goal(g[2]) /\ g[2] \in Gateways
      BY <1>0, <1>2, <3>6, MoveIs, FoundIs
    <3>8. ASSUME d.id \in Named(v.name[1], v.name[2]) PROVE v.id = d.id
      BY <1>0, <1>2, <3>7, <3>8, GoalIs
    <3> QED
      BY <3>2, <3>5, <3>8 DEF Exists
  <2>2. ASSUME NEW v \in Plan, v.op = "move" PROVE at[v.ip] \in Ids
    <3>1. PICK g \in Found : v = MoveWork(g)
      BY <1>0, <1>2, <2>2, MovesOfPlan
    <3> QED
      BY <1>0, <1>2, <3>1, MoveIs, FoundIs, SourceIs
  <2> QED
    BY <1>0, <1>00, <1>2, <2>1, <2>2, EmptiedIsToMove DEF Apart
<1> QED
  BY <1>0, <1>1, <1>2

LEMMA ApartStep ==
    ASSUME Base, Known, Apart, [Next]_vars
    PROVE  Apart'
<1>1. CASE PlanRun
  BY <1>1, PlanApart
<1>2. CASE ~PlanRun
  <2>1. /\ works' = works /\ left' \subseteq left
        /\ edits \in Nat /\ edits' \in Nat /\ edits <= edits'
        /\ \A i \in Ids : ifs[i] # None => ifs'[i] = ifs[i] \/ ifs'[i] = Gone
    BY <1>2, StepIs
  <2>2. /\ Undone' = Undone /\ \A ip : MovesOf(ip)' = MovesOf(ip)
        /\ edits > 0 => edits' > 0
    BY <2>1 DEF Undone, MovesOf
  <2>3. ASSUME NEW d \in works', NEW v \in works', d.op = "delete", v.op = "move"
        PROVE  /\ ifs'[d.id] # None
               /\ v.ip \notin Undone' => v.id # d.id /\ d.id \notin Named(v.name[1], v.name[2])'
    <3>1. /\ d.id \in Ids /\ ifs[d.id] # None
          /\ v.ip \notin Undone => v.id # d.id /\ d.id \notin Named(v.name[1], v.name[2])
      BY <2>1, <2>3 DEF Apart, Base, IsWork
    <3>2. ifs'[d.id] = ifs[d.id] \/ ifs'[d.id] = Gone
      BY <2>1, <3>1
    <3> QED
      BY <2>2, <3>1, <3>2, NoneAssumption DEF Named, Exists
  <2>4. ASSUME at' = at, \A v \in left : v \notin left' => v.op # "move"
        PROVE  Apart'
    <3>1. \A ip : ToMove(ip) => ToMove(ip)'
      BY <2>4 DEF ToMove
    <3> QED
      BY <2>1, <2>2, <2>3, <2>4, <3>1 DEF Apart
  <2>5. ASSUME NEW w \in left, ReassignIPAddress(w) PROVE Apart'
    <3>1. /\ w.op = "move" /\ Exists(Resolved(w)) /\ w \in works
          /\ at' = [at EXCEPT ![w.ip] = Resolved(w)] /\ left' = left \ {w}
      BY <2>5 DEF ReassignIPAddress, Perform, Base, Typed
    <3>2. w.ip \in Ips /\ Resolved(w) \in Ids /\ Resolved(w) \in Named(w.name[1], w.name[2])
      BY <3>1, ResolvedIs
    <3>3. \A ip \in Ips : at'[ip] = IF ip = w.ip THEN Resolved(w) ELSE at[ip]
      BY <3>1, <3>2 DEF Base, Typed
    <3>4. ASSUME NEW d \in left', NEW ip \in Ips, d.op = "delete", at'[ip] = d.id
          PROVE  ToMove(ip)' \/ ip \in Undone \/ (MovesOf(ip) = {} /\ edits > 0)
      <4>1. d \in left /\ d \in works
        BY <3>1, <3>4 DEF Base, Typed
      <4>2. CASE ip = w.ip
        BY <3>1, <3>2, <3>3, <3>4, <4>1, <4>2 DEF Apart
      <4>3. CASE ip # w.ip
        <5>1. ToMove(ip) => ToMove(ip)'
          BY <3>1, <4>3 DEF ToMove
        <5> QED
          BY <3>3, <3>4, <4>1, <4>3, <5>1 DEF Apart
      <4> QED
        BY <4>2, <4>3
    <3>5. \A v \in works : v.op = "move" => v.ip \in Ips
      BY DEF Base, IsWork
    <3>6. \A v \in left' : v.op = "move" => at'[v.ip] \in Ids
      BY <2>1, <3>2, <3>3, <3>5 DEF Apart, Base, Typed
    <3>7. \A v \in works : v.op = "move" /\ v.ip \notin Undone => at'[v.ip] \in Ids
      BY <3>2, <3>3, <3>5 DEF Apart
    <3> QED
      BY <2>1, <2>2, <2>3, <3>4, <3>6, <3>7 DEF Apart
  <2>6. ASSUME NEW w \in left, DeleteInterface(w) PROVE Apart'
    <3>1. /\ w.op = "delete" /\ IsNext(w) /\ left' = left \ {w} /\ w.id \in Ids
          /\ at' = [ip \in Ips |-> IF at[ip] = w.id THEN None ELSE at[ip]]
      BY <2>6 DEF DeleteInterface, Perform, Exists
    <3>2. \A v \in left : v.op = "delete" /\ v.id \in Ids
      BY <3>1, DeletesAreLast DEF Base, Typed, IsWork
    <3>3. \A ip : ~ToMove(ip)
      BY <3>2 DEF ToMove
    <3>4. \A d \in left', ip \in Ips :
              at'[ip] = d.id => ip \in Undone \/ (MovesOf(ip) = {} /\ edits > 0)
      BY <3>1, <3>2, <3>3, NoneAssumption DEF Apart
    <3>5. ASSUME NEW v \in works, v.op = "move", v.ip \notin Undone PROVE at'[v.ip] \in Ids
      <4>1. v.ip \in Ips /\ v \in MovesOf(v.ip)
        BY <3>5 DEF Base, IsWork, MovesOf
      <4>2. at[v.ip] # w.id
        BY <3>1, <3>3, <3>5, <4>1 DEF Apart
      <4> QED
        BY <3>1, <3>5, <4>1, <4>2 DEF Apart
    <3> QED
      BY <2>1, <2>2, <2>3, <3>1, <3>2, <3>4, <3>5 DEF Apart
  <2>7. ASSUME NEW ip \in Ips, NEW i \in Ids, SomeoneAssigns(ip, i) PROVE Apart'
    <3>1. /\ at[ip] = None /\ left' = left /\ edits' = edits + 1
          /\ \A other \in Ips : at'[other] = IF other = ip THEN i ELSE at[other]
      BY <2>7 DEF SomeoneAssigns, Base, Typed
    <3>2. None \notin Ids /\ \A other : ToMove(other)' <=> ToMove(other)
      BY <3>1, NoneAssumption DEF ToMove
    <3>3. ASSUME MovesOf(ip) # {} PROVE ip \in Undone
      <4>1. PICK v \in works : v.op = "move" /\ v.ip = ip
        BY <3>3 DEF MovesOf
      <4> QED
        BY <3>1, <3>2, <4>1 DEF Apart
    <3>4. \A d \in left', other \in Ips :
              d.op = "delete" /\ at'[other] = d.id =>
                  ToMove(other) \/ other \in Undone \/ (MovesOf(other) = {} /\ edits' > 0)
      BY <2>1, <3>1, <3>3 DEF Apart
    <3>5. \A v \in works : v.op = "move" => v.ip \in Ips
      BY DEF Base, IsWork
    <3>6. /\ \A v \in works : v.op = "move" /\ v.ip \notin Undone => at'[v.ip] \in Ids
          /\ \A v \in left : v.op = "move" => at'[v.ip] \in Ids
      BY <3>1, <3>5 DEF Apart, Base, Typed
    <3> QED
      BY <2>1, <2>2, <2>3, <3>1, <3>2, <3>4, <3>6 DEF Apart
  <2> QED
    BY <1>2, <2>4, <2>5, <2>6, <2>7
       DEF Next, CreateInterface, Perform, Refused, Stop, Finish, RunAgain, vars,
           SomeoneAdds, SomeoneDeletes
<1> QED
  BY <1>1, <1>2

LEMMA ApartInvariant == Spec => [](Base /\ Known /\ Apart)
<1>1. Init => Base /\ Known /\ Apart
  BY BaseInit, KnownInit DEF Init, Apart
<1>2. Base /\ Known /\ Apart /\ [Next]_vars => (Base /\ Known /\ Apart)'
  BY BaseStep, KnownStep, ApartStep
<1> QED
  BY <1>1, <1>2, PTL DEF Spec

-----------------------------------------------------------------------------
\* The VRFs.

Kept(ip) ==
    at[ip] \in Ids =>
        \/ ifs[at[ip]].vrf = routed[ip]
        \/ \E w \in MovesOf(ip) : w.id = None /\ (edits > 1 \/ Fits(ifs[at[ip]].vrf, w))

\* What v is to go to will fit: it is still to be made, or it is there.
Coming(v) ==
    \/ \E c \in left : IsMadeFor(c, v)
    \/ edits > 1
    \/ /\ \A i \in Named(v.name[1], v.name[2]) : Fits(ifs[i].vrf, v)
       /\ Named(v.name[1], v.name[2]) # {} \/ edits > 0

Routed ==
    /\ \A ip \in Ips : Kept(ip)
    /\ \A v \in left :
           v.op = "move" /\ v.id # None /\ Exists(v.id) => ifs[v.id].vrf = routed[v.ip]
    /\ \A c, v \in left :
           /\ c.op = "create" /\ v.op = "move" /\ c.port = v.name[1] /\ c.sfx = v.name[2]
           => v.id = None /\ Fits(c.vrf, v)
    /\ \A v \in left : v.op = "move" /\ v.id = None => Coming(v)

LEMMA PlanRouted ==
    ASSUME Base, PlanRun
    PROVE  Routed'
<1>0. /\ Typed /\ ifs' = ifs /\ at' = at /\ left' = works' /\ routed' = Routing
      /\ (works' = {} \/ (~PlanFails /\ works' = Plan))
  BY DEF Base, PlanRun
<1>00. \A ip \in Ips : Kept(ip)'
  BY <1>0 DEF Kept, Routing
<1>1. CASE works' = {}
  BY <1>0, <1>00, <1>1 DEF Routed
<1>2. CASE ~PlanFails /\ works' = Plan
  <2>0. \A i : Exists(i)' <=> Exists(i)
    BY <1>0 DEF Exists
  <2>1. \A g \in Found : Source(g[2]).vrf = routed'[g[2]]
    BY <1>0, <1>2, FoundIs, SourceIs DEF Routing, Source
  <2>2. ASSUME NEW v \in Plan, v.op = "move", v.id # None
        PROVE  ifs[v.id].vrf = routed'[v.ip]
    <3>1. PICK g \in Found : g \in Moving /\ v = MoveWork(g)
      BY <1>0, <1>2, <2>2, MovesOfPlan
    <3>2. v.id = IdOf(Goal(g[2])) /\ v.ip = g[2]
      BY <1>0, <1>2, <3>1, MoveIs
    <3>3. ~WrongVrf(g[2]) /\ ~Stays(g[2])
      BY <1>2, <3>1, FoundIs, <1>0 DEF PlanFails, Moving
    <3> QED
      BY <2>1, <2>2, <3>2, <3>3 DEF WrongVrf
  <2>3. ASSUME NEW c \in Plan, NEW v \in Plan, c.op = "create", v.op = "move",
               c.port = v.name[1], c.sfx = v.name[2]
        PROVE  v.id = None /\ Fits(c.vrf, v)'
    <3>1. PICK f \in Found : f \in Moving /\ IsCreated(f) /\ c = CreateWork(f)
      BY <1>0, <1>2, <2>3, CreatesOfPlan
    <3>2. PICK g \in Found : v = MoveWork(g)
      BY <1>0, <1>2, <2>3, MovesOfPlan
    <3>3. /\ c.vrf = Source(f[2]).vrf /\ <<c.port, c.sfx>> = Goal(f[2])
          /\ v.ip = g[2] /\ v.name = Goal(g[2]) /\ v.id = IdOf(Goal(g[2]))
          /\ v.nr = 2 * Rank(g) + 1 /\ v.name = <<v.name[1], v.name[2]>>
      BY <1>0, <1>2, <3>1, <3>2, FoundIs, GoalIs, CreateIs, MoveIs
    <3>4. Goal(g[2]) = Goal(f[2]) /\ v.id = None
      BY <2>3, <3>1, <3>3 DEF IsCreated
    <3>5. CASE f = g
      <4>1. c.vrf = routed'[v.ip]
        BY <2>1, <3>3, <3>5
      <4> QED
        BY <3>4, <4>1 DEF Fits
    <3>6. CASE f # g
      <4>1. MoveWork(f) \in works'
        BY <1>2, <3>1 DEF Plan, GatewayWorks
      <4>2. /\ MoveWork(f).op = "move" /\ MoveWork(f).name = v.name
            /\ MoveWork(f).ip = f[2] /\ MoveWork(f).nr = 2 * Rank(f) + 1
        BY <1>0, <1>2, <3>3, <3>4, MoveIs
      <4>3. Sooner(f, g)
        BY <1>0, <1>2, <3>1, <3>4, <3>6, SoonerIsTotal DEF IsCreated
      <4>4. MoveWork(f).nr < v.nr
        BY <1>0, <1>2, <3>3, <4>2, <4>3, RankIs
      <4>5. c.vrf = routed'[MoveWork(f).ip]
        BY <2>1, <3>3, <4>2
      <4> QED
        BY <3>4, <4>1, <4>2, <4>4, <4>5 DEF Fits
    <3> QED
      BY <3>4, <3>5, <3>6
  <2>4. ASSUME NEW v \in Plan, v.op = "move", v.id = None
        PROVE  Coming(v)'
    <3>1. \E c \in left' : IsMadeFor(c, v)
      BY <1>0, <1>2, <2>4, MadeInTime
    <3> QED
      BY <3>1 DEF Coming
  <2>5. \A v \in left' :
            v.op = "move" /\ v.id # None /\ Exists(v.id)' => ifs'[v.id].vrf = routed'[v.ip]
    BY <1>0, <1>2, <2>2
  <2>6. \A c, v \in left' :
            /\ c.op = "create" /\ v.op = "move" /\ c.port = v.name[1] /\ c.sfx = v.name[2]
            => v.id = None /\ Fits(c.vrf, v)'
    BY <1>0, <1>2, <2>3
  <2>7. \A v \in left' : v.op = "move" /\ v.id = None => Coming(v)'
    BY <1>0, <1>2, <2>4
  <2> QED
    BY <1>00, <2>5, <2>6, <2>7 DEF Routed
<1> QED
  BY <1>0, <1>1, <1>2

\* While a run is under way, only an address that has no place is routed anew,
\* and no work that waits for a subinterface is about such a one.
LEMMA RoutedStays ==
    ASSUME Base, Known, Apart, [Next]_vars, ~PlanRun
    PROVE  /\ works' = works /\ left' \subseteq left
           /\ edits \in Nat /\ edits' \in Nat /\ edits <= edits'
           /\ \A ip \in Ips : at[ip] \in Ids => routed'[ip] = routed[ip]
           /\ \A v \in left : v.op = "move" => routed'[v.ip] = routed[v.ip]
           /\ \A v \in works : v.op = "move" /\ v.id = None =>
                  \A vrf : Fits(vrf, v)' <=> Fits(vrf, v)
<1>1. /\ works' = works /\ left' \subseteq left
      /\ edits \in Nat /\ edits' \in Nat /\ edits <= edits'
  BY StepIs
<1>2. ASSUME NEW ip \in Ips, at[ip] \in Ids PROVE routed'[ip] = routed[ip]
  <2>1. at[ip] # None
    BY <1>2, NoneAssumption
  <2>2. ASSUME NEW other \in Ips, NEW i \in Ids, SomeoneAssigns(other, i)
        PROVE  routed'[ip] = routed[ip]
    BY <2>1, <2>2 DEF SomeoneAssigns, Base, Typed
  <2> QED
    BY <2>2 DEF Next, CreateInterface, ReassignIPAddress, DeleteInterface, Perform, Refused,
                Stop, Finish, RunAgain, vars, SomeoneAdds, SomeoneDeletes
<1>3. \A v \in works : v.op = "move" => v.ip \in Ips
  BY DEF Base, IsWork
<1>4. \A v \in left : v.op = "move" => routed'[v.ip] = routed[v.ip]
  BY <1>2, <1>3 DEF Apart, Base, Typed
<1>5. \A v \in works : v.op = "move" /\ v.id = None => routed'[v.ip] = routed[v.ip]
  BY <1>2, <1>3, UndoneIs DEF Apart
<1>6. ASSUME NEW v \in works, v.op = "move", v.id = None, NEW vrf
      PROVE  Fits(vrf, v)' <=> Fits(vrf, v)
  <2>1. \A w \in works : w.op = "move" /\ w.name = v.name => w.id = None
    BY <1>6 DEF Known
  <2> QED
    BY <1>1, <1>5, <1>6, <2>1 DEF Fits
<1> QED
  BY <1>1, <1>2, <1>4, <1>6

\* An address that stays, on a subinterface that stays, is routed as it was.
LEMMA KeptStays ==
    ASSUME Base, Known, Apart, Routed, [Next]_vars, ~PlanRun, NEW ip \in Ips,
           at'[ip] \in Ids => at'[ip] = at[ip] /\ ifs'[at[ip]] = ifs[at[ip]]
    PROVE  Kept(ip)'
<1> SUFFICES ASSUME at'[ip] \in Ids
             PROVE  Kept(ip)'
  BY DEF Kept
<1>1. /\ at[ip] \in Ids /\ at'[ip] = at[ip] /\ ifs'[at'[ip]] = ifs[at[ip]]
      /\ routed'[ip] = routed[ip]
  BY RoutedStays
<1>2. CASE ifs[at[ip]].vrf = routed[ip]
  BY <1>1, <1>2 DEF Kept
<1>3. CASE ifs[at[ip]].vrf # routed[ip]
  <2>1. PICK w \in MovesOf(ip) : w.id = None /\ (edits > 1 \/ Fits(ifs[at[ip]].vrf, w))
    BY <1>1, <1>3 DEF Routed, Kept
  <2>2. w \in works /\ w.op = "move" /\ w \in MovesOf(ip)'
    BY RoutedStays DEF MovesOf
  <2>3. edits > 1 => edits' > 1
    BY RoutedStays
  <2>4. Fits(ifs[at[ip]].vrf, w) => Fits(ifs[at[ip]].vrf, w)'
    BY <1>1, <2>1, <2>2, RoutedStays DEF Fits
  <2> QED
    BY <2>1, <2>2, <2>3, <2>4 DEF Kept
<1> QED
  BY <1>2, <1>3

\* What a subinterface that is added leaves of it.
LEMMA AddRouted ==
    ASSUME Base, Known, Apart, Routed, [Next]_vars, ~PlanRun,
           NEW port \in Ports, NEW sfx \in SubNumbers, NEW vrf \in VRFs,
           Add(port, sfx, vrf), at' = at
    PROVE  /\ \A ip \in Ips : Kept(ip)'
           /\ \A v \in left' : v.op = "move" /\ v.id # None /\ Exists(v.id)' =>
                  ifs'[v.id].vrf = routed'[v.ip]
           /\ \A p, s : ~(p = port /\ s = sfx) =>
                  /\ Named(p, s)' = Named(p, s)
                  /\ \A i \in Named(p, s)' : ifs'[i] = ifs[i]
           /\ Named(port, sfx)' # {} /\ \A i \in Named(port, sfx)' : ifs'[i].vrf = vrf
<1>0. Typed
  BY DEF Base
<1>1. PICK i \in Ids :
          /\ ifs[i] = None /\ ifs'[i].vrf = vrf
          /\ \A j \in Ids : j # i => ifs'[j] = ifs[j] /\ (Exists(j)' <=> Exists(j))
          /\ Exists(i)' /\ ~Exists(i)
          /\ \A p, s : Named(p, s)' = IF p = port /\ s = sfx THEN {i} ELSE Named(p, s)
  BY <1>0, AddIs
<1>2. \A ip \in Ips : at[ip] \in Ids => at[ip] # i
  BY <1>0, <1>1, NoneAssumption DEF Typed
<1>3. \A ip \in Ips : Kept(ip)'
  BY <1>1, <1>2, KeptStays
<1>4. ASSUME NEW v \in left', v.op = "move", v.id # None, Exists(v.id)'
      PROVE  ifs'[v.id].vrf = routed'[v.ip]
  <2>1. v \in left /\ routed'[v.ip] = routed[v.ip]
    BY <1>4, RoutedStays
  <2>2. v.id \in Ids /\ v.id # i
    BY <1>0, <1>1, <1>4, <2>1 DEF Base, Typed, IsWork, Known
  <2> QED
    BY <1>1, <1>4, <2>1, <2>2 DEF Routed
<1>5. \A p, s : ~(p = port /\ s = sfx) => \A j \in Named(p, s)' : ifs'[j] = ifs[j]
  <2>1. \A p, s : i \notin Named(p, s) /\ Named(p, s) \subseteq Ids
    BY <1>1 DEF Named
  <2> QED
    BY <1>1, <2>1
<1>6. Named(port, sfx)' # {} /\ \A j \in Named(port, sfx)' : ifs'[j].vrf = vrf
  BY <1>1
<1> QED
  BY <1>1, <1>3, <1>4, <1>5, <1>6

\* What is to be made fits as long as it is to be made.
LEMMA MadeFits ==
    ASSUME Base, Known, Apart, Routed, [Next]_vars, ~PlanRun,
           NEW c \in left', NEW v \in left', c.op = "create", v.op = "move",
           c.port = v.name[1], c.sfx = v.name[2]
    PROVE  v.id = None /\ Fits(c.vrf, v)'
<1>1. c \in left /\ v \in left /\ v \in works
  BY RoutedStays DEF Base, Typed
<1>2. v.id = None /\ Fits(c.vrf, v)
  BY <1>1 DEF Routed
<1> QED
  BY <1>1, <1>2, RoutedStays

\* A work whose subinterface does not change stays one that fits.
LEMMA ComingStays ==
    ASSUME Base, Known, Apart, Routed, [Next]_vars, ~PlanRun,
           NEW v \in left', v.op = "move", v.id = None,
           \A c \in left \ left' : ~IsMadeFor(c, v),
           /\ Named(v.name[1], v.name[2])' = Named(v.name[1], v.name[2])
           /\ \A i \in Named(v.name[1], v.name[2])' : ifs'[i] = ifs[i]
    PROVE  Coming(v)'
<1>1. v \in left /\ v \in works /\ Coming(v)
  BY RoutedStays DEF Base, Typed, Routed
<1>2. ASSUME \E c \in left : IsMadeFor(c, v) PROVE \E c \in left' : IsMadeFor(c, v)
  BY <1>2
<1>3. ASSUME NEW i \in Named(v.name[1], v.name[2])', Fits(ifs[i].vrf, v)
      PROVE  Fits(ifs[i].vrf, v)'
  <2>1. ifs'[i] = ifs[i]
    BY <1>3
  <2>2. \A vrf : Fits(vrf, v)' <=> Fits(vrf, v)
    BY <1>1, RoutedStays
  <2> QED
    BY <1>3, <2>1, <2>2 DEF Fits
<1>4. ASSUME \A i \in Named(v.name[1], v.name[2]) : Fits(ifs[i].vrf, v)
      PROVE  (\A i \in Named(v.name[1], v.name[2]) : Fits(ifs[i].vrf, v))'
  BY <1>3, <1>4
<1>5. (edits > 1 => edits' > 1) /\ (edits > 0 => edits' > 0)
  BY RoutedStays
<1> QED
  BY <1>1, <1>2, <1>4, <1>5 DEF Coming

LEMMA CreateRouted ==
    ASSUME Base, Known, Apart, Routed, [Next]_vars, ~PlanRun,
           NEW w \in left, CreateInterface(w)
    PROVE  Routed'
<1>1. /\ w.op = "create" /\ w.port \in Ports /\ w.sfx \in SubNumbers /\ w.vrf \in VRFs
      /\ w \in works
  BY DEF CreateInterface, Base, Typed, IsWork
<1>2. /\ Add(w.port, w.sfx, w.vrf) /\ left' = left \ {w} /\ at' = at
  BY DEF CreateInterface, Perform
<1>3. /\ \A ip \in Ips : Kept(ip)'
      /\ \A v \in left' : v.op = "move" /\ v.id # None /\ Exists(v.id)' =>
             ifs'[v.id].vrf = routed'[v.ip]
      /\ \A p, s : ~(p = w.port /\ s = w.sfx) =>
             /\ Named(p, s)' = Named(p, s)
             /\ \A i \in Named(p, s)' : ifs'[i] = ifs[i]
      /\ Named(w.port, w.sfx)' # {} /\ \A i \in Named(w.port, w.sfx)' : ifs'[i].vrf = w.vrf
  BY <1>1, <1>2, AddRouted
<1>4. \A c, v \in left' :
          /\ c.op = "create" /\ v.op = "move" /\ c.port = v.name[1] /\ c.sfx = v.name[2]
          => v.id = None /\ Fits(c.vrf, v)'
  BY MadeFits
<1>5. ASSUME NEW v \in left', v.op = "move", v.id = None
      PROVE  Coming(v)'
  <2>1. CASE v.name[1] = w.port /\ v.name[2] = w.sfx
    <3>1. v \in left /\ v \in works
      BY <1>2 DEF Base, Typed
    <3>2. Fits(w.vrf, v)
      BY <1>1, <1>5, <2>1, <3>1 DEF Routed
    <3>3. ASSUME NEW i \in Named(v.name[1], v.name[2])' PROVE Fits(ifs[i].vrf, v)'
      <4>1. ifs'[i].vrf = w.vrf
        BY <1>3, <2>1
      <4> QED
        BY <1>5, <3>1, <3>2, <4>1, RoutedStays DEF Fits
    <3> QED
      BY <1>3, <2>1, <3>3 DEF Coming
  <2>2. CASE ~(v.name[1] = w.port /\ v.name[2] = w.sfx)
    BY <1>2, <1>3, <1>5, <2>2, ComingStays DEF IsMadeFor
  <2> QED
    BY <2>1, <2>2
<1> QED
  BY <1>3, <1>4, <1>5 DEF Routed

LEMMA ReassignRouted ==
    ASSUME Base, Known, Apart, Routed, [Next]_vars, ~PlanRun,
           NEW w \in left, ReassignIPAddress(w)
    PROVE  Routed'
<1>1. /\ w.op = "move" /\ IsNext(w) /\ Exists(Resolved(w)) /\ ifs' = ifs
      /\ at' = [at EXCEPT ![w.ip] = Resolved(w)]
      /\ left' = left \ {w} /\ UNCHANGED <<cmd, works, routed, edits>>
  BY DEF ReassignIPAddress, Perform
<1>2. /\ w \in works /\ w.ip \in Ips /\ w.nr \in Nat /\ Resolved(w) \in Ids
      /\ w \in MovesOf(w.ip)
  BY <1>1 DEF Base, Typed, IsWork, Exists, MovesOf
<1>3. \A ip \in Ips : at'[ip] = IF ip = w.ip THEN Resolved(w) ELSE at[ip]
  BY <1>1, <1>2 DEF Base, Typed
<1>4. Kept(w.ip)'
  <2>1. CASE w.id # None
    <3>1. ifs'[at'[w.ip]].vrf = routed'[w.ip]
      BY <1>1, <1>2, <1>3, <2>1 DEF Resolved, Routed
    <3> QED
      BY <3>1 DEF Kept
  <2>2. CASE w.id = None
    <3>1. \A c \in left : ~IsMadeFor(c, w)
      <4>1. \A c \in left : c.nr \in Nat /\ w.nr <= c.nr
        BY <1>1 DEF IsNext, Base, Typed, IsWork
      <4> QED
        BY <1>2, <4>1 DEF IsMadeFor
    <3>2. edits > 1 \/ \A i \in Named(w.name[1], w.name[2]) : Fits(ifs[i].vrf, w)
      BY <1>1, <2>2, <3>1 DEF Routed, Coming
    <3>3. Resolved(w) \in Named(w.name[1], w.name[2]) /\ at'[w.ip] = Resolved(w)
      BY <1>1, <1>2, <1>3, ResolvedIs
    <3>4. edits > 1 \/ Fits(ifs[Resolved(w)].vrf, w)
      BY <3>2, <3>3
    <3>5. edits' > 1 \/ Fits(ifs[at[w.ip]].vrf, w)'
      BY <1>1, <3>3, <3>4 DEF Fits
    <3>6. w \in MovesOf(w.ip)'
      BY <1>1, <1>2 DEF MovesOf
    <3> QED
      BY <2>2, <3>5, <3>6 DEF Kept
  <2> QED
    BY <2>1, <2>2
<1>5. ASSUME NEW ip \in Ips PROVE Kept(ip)'
  BY <1>1, <1>3, <1>4, KeptStays
<1>6. \A i : Exists(i)' <=> Exists(i)
  BY <1>1 DEF Exists
<1>7. \A p, s : Named(p, s)' = Named(p, s) /\ \A i \in Named(p, s)' : ifs'[i] = ifs[i]
  BY <1>1, <1>6 DEF Named
<1>8. \A v \in left' : v.op = "move" /\ v.id = None => Coming(v)'
  <2>1. \A v : ~IsMadeFor(w, v)
    BY <1>1 DEF IsMadeFor
  <2> QED
    BY <1>1, <1>7, <2>1, ComingStays
<1>9. \A v \in left' : v.op = "move" /\ v.id # None /\ Exists(v.id)' =>
          ifs'[v.id].vrf = routed'[v.ip]
  BY <1>1, <1>6 DEF Routed
<1>10. \A c, v \in left' :
           /\ c.op = "create" /\ v.op = "move" /\ c.port = v.name[1] /\ c.sfx = v.name[2]
           => v.id = None /\ Fits(c.vrf, v)'
  BY MadeFits
<1> QED
  BY <1>5, <1>8, <1>9, <1>10 DEF Routed

\* What a subinterface that goes leaves of it.
LEMMA GoneRouted ==
    ASSUME Base, Known, Apart, Routed, [Next]_vars, ~PlanRun,
           NEW i \in Ids, Exists(i), ifs' = [ifs EXCEPT ![i] = Gone],
           \A ip \in Ips : at'[ip] \in Ids => at'[ip] = at[ip] /\ at[ip] # i
    PROVE  /\ \A ip \in Ips : Kept(ip)'
           /\ \A v \in left' : v.op = "move" /\ v.id # None /\ Exists(v.id)' =>
                  ifs'[v.id].vrf = routed'[v.ip]
           /\ \A p, s : /\ Named(p, s)' \subseteq Named(p, s)
                        /\ \A j \in Named(p, s)' : ifs'[j] = ifs[j]
<1>1. /\ \A j \in Ids : j # i => ifs'[j] = ifs[j] /\ (Exists(j)' <=> Exists(j))
      /\ ~Exists(i)' /\ \A p, s : Named(p, s)' = Named(p, s) \ {i}
  BY GoneIs DEF Base
<1>2. \A ip \in Ips : Kept(ip)'
  BY <1>1, KeptStays
<1>3. ASSUME NEW v \in left', v.op = "move", v.id # None, Exists(v.id)'
      PROVE  ifs'[v.id].vrf = routed'[v.ip]
  <2>1. v \in left /\ routed'[v.ip] = routed[v.ip]
    BY <1>3, RoutedStays
  <2>2. v.id \in Ids /\ v.id # i
    BY <1>1, <1>3, <2>1 DEF Base, Typed, IsWork
  <2> QED
    BY <1>1, <1>3, <2>1, <2>2 DEF Routed
<1>4. \A p, s : /\ Named(p, s)' \subseteq Named(p, s)
                /\ \A j \in Named(p, s)' : ifs'[j] = ifs[j]
  <2>1. \A p, s : Named(p, s) \subseteq Ids
    BY DEF Named
  <2> QED
    BY <1>1, <2>1
<1> QED
  BY <1>2, <1>3, <1>4

LEMMA RoutedStep ==
    ASSUME Base, Known, Apart, Routed, [Next]_vars
    PROVE  Routed'
<1>1. CASE PlanRun
  BY <1>1, PlanRouted
<1>2. CASE ~PlanRun
  <2> USE <1>2
  <2>0. edits \in Nat
    BY RoutedStays
  <2>1. ASSUME NEW w \in left, CreateInterface(w) PROVE Routed'
    BY <2>1, CreateRouted
  <2>2. ASSUME NEW w \in left, ReassignIPAddress(w) PROVE Routed'
    BY <2>2, ReassignRouted
  <2>3. ASSUME NEW w \in left, DeleteInterface(w) PROVE Routed'
    <3>1. /\ w.op = "delete" /\ Exists(w.id) /\ w.id \in Ids /\ IsNext(w)
          /\ ifs' = [ifs EXCEPT ![w.id] = Gone]
          /\ at' = [ip \in Ips |-> IF at[ip] = w.id THEN None ELSE at[ip]]
          /\ left' \subseteq left
      BY <2>3 DEF DeleteInterface, Perform, Exists
    <3>2. \A v \in left' : v.op = "delete"
      BY <3>1, DeletesAreLast
    <3>3. \A ip \in Ips : at'[ip] \in Ids => at'[ip] = at[ip] /\ at[ip] # w.id
      BY <3>1, NoneAssumption
    <3>4. \A ip \in Ips : Kept(ip)'
      BY <3>1, <3>3, GoneRouted
    <3> QED
      BY <3>2, <3>4 DEF Routed
  <2>4. ASSUME UNCHANGED <<ifs, left>>,
               \A ip \in Ips : at'[ip] = at[ip] \/ (at'[ip] \in Ids => Kept(ip)')
        PROVE  Routed'
    <3>1. \A i : Exists(i)' <=> Exists(i)
      BY <2>4 DEF Exists
    <3>2. \A p, s : Named(p, s)' = Named(p, s) /\ \A i \in Named(p, s)' : ifs'[i] = ifs[i]
      BY <2>4, <3>1 DEF Named
    <3>3. \A v \in left' : v.op = "move" /\ v.id = None => Coming(v)'
      BY <2>4, <3>2, ComingStays
    <3>4. \A v \in left' : v.op = "move" /\ v.id # None /\ Exists(v.id)' =>
              ifs'[v.id].vrf = routed'[v.ip]
      BY <2>4, <3>1, RoutedStays DEF Routed
    <3>5. \A c, v \in left' :
              /\ c.op = "create" /\ v.op = "move" /\ c.port = v.name[1] /\ c.sfx = v.name[2]
              => v.id = None /\ Fits(c.vrf, v)'
      BY MadeFits
    <3>6. ASSUME NEW ip \in Ips PROVE Kept(ip)'
      <4>1. CASE at'[ip] = at[ip]
        BY <2>4, <4>1, KeptStays
      <4>2. CASE at'[ip] # at[ip]
        BY <2>4, <4>2 DEF Kept
      <4> QED
        BY <4>1, <4>2
    <3> QED
      BY <3>3, <3>4, <3>5, <3>6 DEF Routed
  <2>5. ASSUME NEW port \in Ports, NEW sfx \in SubNumbers, NEW vrf \in VRFs,
               SomeoneAdds(port, sfx, vrf)
        PROVE  Routed'
    <3>1. Add(port, sfx, vrf) /\ at' = at /\ left' = left /\ edits' = edits + 1
      BY <2>5 DEF SomeoneAdds
    <3>2. /\ \A ip \in Ips : Kept(ip)'
          /\ \A v \in left' : v.op = "move" /\ v.id # None /\ Exists(v.id)' =>
                 ifs'[v.id].vrf = routed'[v.ip]
          /\ \A p, s : ~(p = port /\ s = sfx) =>
                 /\ Named(p, s)' = Named(p, s)
                 /\ \A i \in Named(p, s)' : ifs'[i] = ifs[i]
      BY <3>1, AddRouted
    <3>3. ASSUME NEW v \in left', v.op = "move", v.id = None PROVE Coming(v)'
      <4>1. CASE ~(v.name[1] = port /\ v.name[2] = sfx)
        BY <3>1, <3>2, <3>3, <4>1, ComingStays
      <4>2. CASE v.name[1] = port /\ v.name[2] = sfx
        <5>1. Coming(v) /\ Named(v.name[1], v.name[2]) = {}
          BY <3>1, <3>3, <4>2 DEF Routed, Add
        <5>2. (\E c \in left : IsMadeFor(c, v)) \/ edits > 0
          BY <2>0, <5>1 DEF Coming
        <5> QED
          BY <2>0, <3>1, <5>2 DEF Coming
      <4> QED
        BY <4>1, <4>2
    <3> QED
      BY <3>2, <3>3, MadeFits DEF Routed
  <2>6. ASSUME NEW i \in Ids, SomeoneDeletes(i) PROVE Routed'
    <3>1. /\ Exists(i) /\ ifs' = [ifs EXCEPT ![i] = Gone] /\ HeldBy(i) = {}
          /\ at' = at /\ left' = left /\ edits' = edits + 1
      BY <2>6 DEF SomeoneDeletes
    <3>2. \A ip \in Ips : at'[ip] \in Ids => at'[ip] = at[ip] /\ at[ip] # i
      BY <3>1 DEF HeldBy
    <3>3. /\ \A ip \in Ips : Kept(ip)'
          /\ \A v \in left' : v.op = "move" /\ v.id # None /\ Exists(v.id)' =>
                 ifs'[v.id].vrf = routed'[v.ip]
          /\ \A p, s : /\ Named(p, s)' \subseteq Named(p, s)
                       /\ \A j \in Named(p, s)' : ifs'[j] = ifs[j]
      BY <3>1, <3>2, GoneRouted
    <3>4. ASSUME NEW v \in left', v.op = "move", v.id = None PROVE Coming(v)'
      <4>1. v \in left /\ v \in works /\ Coming(v)
        BY <3>1, <3>4 DEF Base, Typed, Routed
      <4>2. CASE (\E c \in left : IsMadeFor(c, v)) \/ edits > 1
        BY <2>0, <3>1, <4>2 DEF Coming
      <4>3. CASE \A j \in Named(v.name[1], v.name[2]) : Fits(ifs[j].vrf, v)
        <5>1. ASSUME NEW j \in Named(v.name[1], v.name[2])' PROVE Fits(ifs[j].vrf, v)'
          <6>1. ifs'[j] = ifs[j] /\ Fits(ifs[j].vrf, v)
            BY <3>3, <4>3, <5>1
          <6>2. \A vrf : Fits(vrf, v)' <=> Fits(vrf, v)
            BY <3>4, <4>1, RoutedStays
          <6> QED
            BY <6>1, <6>2 DEF Fits
        <5> QED
          BY <2>0, <3>1, <5>1 DEF Coming
      <4> QED
        BY <4>1, <4>2, <4>3 DEF Coming
    <3> QED
      BY <3>3, <3>4, MadeFits DEF Routed
  <2>7. ASSUME NEW ip \in Ips, NEW i \in Ids, SomeoneAssigns(ip, i) PROVE Routed'
    <3>1. /\ at' = [at EXCEPT ![ip] = i] /\ routed' = [routed EXCEPT ![ip] = ifs[i].vrf]
          /\ UNCHANGED <<ifs, left>>
      BY <2>7 DEF SomeoneAssigns
    <3>2. ifs'[at'[ip]].vrf = routed'[ip]
      BY <3>1 DEF Base, Typed
    <3>3. Kept(ip)'
      BY <3>2 DEF Kept
    <3>4. \A other \in Ips : other # ip => at'[other] = at[other]
      BY <3>1 DEF Base, Typed
    <3> QED
      BY <2>4, <3>1, <3>3, <3>4
  <2>8. CASE (\E w \in left : Refused(w)) \/ Stop \/ Finish \/ RunAgain \/ UNCHANGED vars
    BY <2>4, <2>8 DEF Refused, Stop, Finish, RunAgain, vars
  <2> QED
    BY <2>1, <2>2, <2>3, <2>5, <2>6, <2>7, <2>8 DEF Next
<1> QED
  BY <1>1, <1>2

\* No gateway is rerouted, except by its own run onto a subinterface that this
\* run was to make: then for the VRF of an earlier gateway of the same target,
\* or because others have put a subinterface of another VRF there.
THEOREM VrfsAreKept == Spec => []VrfKept
<1>1. Init => Routed
  <2> SUFFICES ASSUME Init PROVE Routed
    OBVIOUS
  <2>1. left = {} /\ \A ip \in Ips : Kept(ip)
    BY DEF Init, Routing, Kept
  <2> QED
    BY <2>1 DEF Routed
<1>2. Base /\ Known /\ Apart /\ Routed /\ [Next]_vars => Routed'
  BY RoutedStep
<1>3. Routed => VrfKept
  BY DEF Routed, Kept, VrfKept
<1> QED
  BY <1>1, <1>2, <1>3, ApartInvariant, PTL DEF Spec

-----------------------------------------------------------------------------
\* What is achieved.

\* What the works that are done have brought about, when nobody else writes.
Achieved ==
    /\ \A v \in works \ left :
           v.op = "move" =>
               IF v.ip \in Undone THEN at[v.ip] \in {v.id, None}
                                 ELSE at[v.ip] \in Named(v.name[1], v.name[2])
    /\ \A d \in works \ left : d.op = "delete" => ifs[d.id] = Gone
    /\ cmd.deleteEmpty =>
           \A v \in works :
               v.op = "move" =>
                   \/ \E d \in works : d.op = "delete" /\ d.id = v.from
                   \/ \E ip \in Ips : /\ at[ip] = v.from
                                      /\ \A w \in works : w.op = "move" => w.ip # ip
    /\ pc = "done" => left = {}

Succeeding == edits = 0 => Achieved

LEMMA PlanAchieved ==
    ASSUME Base, PlanRun
    PROVE  Achieved'
<1>0. /\ Typed /\ ifs' = ifs /\ at' = at /\ left' = works' /\ cmd' = cmd /\ pc' # "done"
      /\ (works' = {} \/ (~PlanFails /\ works' = Plan))
  BY DEF Base, PlanRun
<1>1. CASE works' = {}
  BY <1>0, <1>1 DEF Achieved
<1>2. CASE ~PlanFails /\ works' = Plan
  <2>1. ASSUME cmd.deleteEmpty, NEW v \in Plan, v.op = "move"
        PROVE  \/ \E d \in Plan : d.op = "delete" /\ d.id = v.from
               \/ \E ip \in Ips : /\ at[ip] = v.from
                                  /\ \A w \in Plan : w.op = "move" => w.ip # ip
    <3>1. PICK g \in Found : g \in Moving /\ v = MoveWork(g)
      BY <1>0, <1>2, <2>1, MovesOfPlan
    <3>2. v.from = at[g[2]]
      BY <1>0, <1>2, <3>1, MoveIs
    <3>3. CASE v.from \in Emptied
      <4>1. DeleteWork(v.from) \in Plan
        BY <2>1, <3>3 DEF Plan
      <4> QED
        BY <1>0, <1>2, <3>3, <4>1, DeleteIs
    <3>4. CASE v.from \notin Emptied
      <4>1. PICK ip \in Ips : at[ip] = v.from /\ ip \notin Moved
        BY <3>1, <3>2, <3>4 DEF Emptied, Moved, HeldBy
      <4>2. ASSUME NEW w \in Plan, w.op = "move" PROVE w.ip # ip
        <5>1. PICK h \in Found : h \in Moving /\ w = MoveWork(h)
          BY <1>0, <1>2, <4>2, MovesOfPlan
        <5>2. w.ip = h[2]
          BY <1>0, <1>2, <5>1, MoveIs
        <5> QED
          BY <4>1, <5>1, <5>2 DEF Moved
      <4> QED
        BY <4>1, <4>2
    <3> QED
      BY <3>3, <3>4
  <2> QED
    BY <1>0, <1>2, <2>1 DEF Achieved
<1> QED
  BY <1>0, <1>1, <1>2

LEMMA CreateAchieved ==
    ASSUME Base, Achieved, NEW w \in left, CreateInterface(w)
    PROVE  Achieved'
<1>1. w.op = "create" /\ w.port \in Ports /\ w.sfx \in SubNumbers /\ w.vrf \in VRFs
  BY DEF CreateInterface, Base, Typed, IsWork
<1>2. /\ Add(w.port, w.sfx, w.vrf) /\ left' = left \ {w} /\ Named(w.port, w.sfx) = {}
      /\ UNCHANGED <<at, cmd, works, pc>> /\ pc # "done" /\ Typed
  BY DEF CreateInterface, Perform, IsNext, Add, Base
<1>3. PICK i \in Ids :
          /\ ifs[i] = None
          /\ \A j \in Ids : j # i => ifs'[j] = ifs[j]
          /\ \A p, s : Named(p, s)' = IF p = w.port /\ s = w.sfx THEN {i} ELSE Named(p, s)
  BY <1>1, <1>2, AddIs
<1>4. \A v \in works' \ left' :
          v.op = "move" =>
              IF v.ip \in Undone' THEN at'[v.ip] \in {v.id, None}
                                 ELSE at'[v.ip] \in Named(v.name[1], v.name[2])'
  <2>1. Undone' = Undone
    BY <1>2 DEF Undone
  <2> QED
    BY <1>1, <1>2, <1>3, <2>1 DEF Achieved
<1>5. ASSUME NEW d \in works' \ left', d.op = "delete" PROVE ifs'[d.id] = Gone
  <2>1. d \in works \ left /\ d.id \in Ids /\ ifs[d.id] = Gone
    BY <1>1, <1>2, <1>5 DEF Achieved, Base, IsWork
  <2> QED
    BY <1>3, <2>1, NoneAssumption
<1> QED
  BY <1>2, <1>4, <1>5 DEF Achieved

LEMMA ReassignAchieved ==
    ASSUME Base, Known, Achieved, NEW w \in left, ReassignIPAddress(w)
    PROVE  Achieved'
<1>1. /\ w.op = "move" /\ Exists(Resolved(w)) /\ w \in works /\ pc # "done"
      /\ at' = [at EXCEPT ![w.ip] = Resolved(w)] /\ left' = left \ {w}
      /\ UNCHANGED <<ifs, cmd, works, pc>>
  BY DEF ReassignIPAddress, Perform, IsNext, Base, Typed
<1>2. w.ip \in Ips /\ Resolved(w) \in Named(w.name[1], w.name[2])
  BY <1>1, ResolvedIs
<1>3. \A ip \in Ips : at'[ip] = IF ip = w.ip THEN Resolved(w) ELSE at[ip]
  BY <1>1, <1>2 DEF Base, Typed
<1>4. \A p, s : Named(p, s)' = Named(p, s)
  BY <1>1 DEF Named, Exists
<1>5. ASSUME NEW v \in works' \ left', v.op = "move"
      PROVE  IF v.ip \in Undone' THEN at'[v.ip] \in {v.id, None}
                                ELSE at'[v.ip] \in Named(v.name[1], v.name[2])'
  <2>1. v.ip \in Ips /\ v \in works /\ Undone' = Undone
    BY <1>1, <1>5 DEF Base, IsWork, Undone
  <2>2. CASE v.ip = w.ip
    <3>1. v.name = w.name /\ v.id = w.id
      BY <1>1, <1>5, <2>1, <2>2 DEF Known
    <3>2. CASE v.ip \in Undone
      BY <1>1, <1>3, <1>5, <2>1, <2>2, <3>1, <3>2, UndoneIs DEF Resolved
    <3>3. CASE v.ip \notin Undone
      BY <1>2, <1>3, <1>4, <2>1, <2>2, <3>1, <3>3
    <3> QED
      BY <3>2, <3>3
  <2>3. CASE v.ip # w.ip
    BY <1>1, <1>3, <1>4, <1>5, <2>1, <2>3 DEF Achieved
  <2> QED
    BY <2>2, <2>3
<1>6. ASSUME cmd'.deleteEmpty, NEW v \in works', v.op = "move"
      PROVE  \/ \E d \in works' : d.op = "delete" /\ d.id = v.from
             \/ \E ip \in Ips : /\ at'[ip] = v.from
                                /\ \A u \in works' : u.op = "move" => u.ip # ip
  BY <1>1, <1>3, <1>6 DEF Achieved
<1>7. \A d \in works' \ left' : d.op = "delete" => ifs'[d.id] = Gone
  BY <1>1 DEF Achieved
<1> QED
  BY <1>1, <1>5, <1>6, <1>7 DEF Achieved

LEMMA DeleteAchieved ==
    ASSUME Base, Apart, Achieved, NEW w \in left, DeleteInterface(w)
    PROVE  Achieved'
<1>1. /\ w.op = "delete" /\ Exists(w.id) /\ w.id \in Ids /\ w \in works /\ pc # "done"
      /\ ifs' = [ifs EXCEPT ![w.id] = Gone]
      /\ at' = [ip \in Ips |-> IF at[ip] = w.id THEN None ELSE at[ip]]
      /\ left' = left \ {w} /\ UNCHANGED <<cmd, works, pc>>
  BY DEF DeleteInterface, Perform, Exists, IsNext, Base, Typed
<1>2. /\ ifs'[w.id] = Gone /\ \A j \in Ids : j # w.id => ifs'[j] = ifs[j]
      /\ \A p, s : Named(p, s)' = Named(p, s) \ {w.id}
  BY <1>1, GoneIs DEF Base
<1>3. ASSUME NEW v \in works' \ left', v.op = "move"
      PROVE  IF v.ip \in Undone' THEN at'[v.ip] \in {v.id, None}
                                ELSE at'[v.ip] \in Named(v.name[1], v.name[2])'
  <2>1. v \in works \ left /\ v.ip \in Ips /\ Undone' = Undone
    BY <1>1, <1>3 DEF Base, IsWork, Undone
  <2>2. CASE v.ip \in Undone
    BY <1>1, <1>3, <2>1, <2>2 DEF Achieved
  <2>3. CASE v.ip \notin Undone
    <3>1. at[v.ip] \in Named(v.name[1], v.name[2]) /\ w.id \notin Named(v.name[1], v.name[2])
      BY <1>1, <1>3, <2>1, <2>3 DEF Achieved, Apart
    <3> QED
      BY <1>1, <1>2, <2>1, <2>3, <3>1
  <2> QED
    BY <2>2, <2>3
<1>4. ASSUME NEW d \in works' \ left', d.op = "delete" PROVE ifs'[d.id] = Gone
  <2>1. CASE d = w
    BY <1>2, <2>1
  <2>2. CASE d # w
    BY <1>1, <1>2, <1>4, <2>2 DEF Achieved, Base, IsWork
  <2> QED
    BY <2>1, <2>2
<1>5. ASSUME cmd'.deleteEmpty, NEW v \in works', v.op = "move"
      PROVE  \/ \E d \in works' : d.op = "delete" /\ d.id = v.from
             \/ \E ip \in Ips : /\ at'[ip] = v.from
                                /\ \A u \in works' : u.op = "move" => u.ip # ip
  <2>1. CASE v.from = w.id
    BY <1>1, <2>1
  <2>2. CASE v.from # w.id
    BY <1>1, <1>5, <2>2 DEF Achieved
  <2> QED
    BY <2>1, <2>2
<1> QED
  BY <1>1, <1>3, <1>4, <1>5 DEF Achieved

LEMMA SucceedingStep ==
    ASSUME Base, Known, Apart, Succeeding, [Next]_vars
    PROVE  Succeeding'
<1>0. edits \in Nat
  BY DEF Base, Typed, IsCommand
<1>1. CASE PlanRun
  BY <1>1, PlanAchieved DEF Succeeding
<1>2. ASSUME NEW w \in left, CreateInterface(w) PROVE Succeeding'
  BY <1>2, CreateAchieved DEF Succeeding, CreateInterface, Perform
<1>3. ASSUME NEW w \in left, ReassignIPAddress(w) PROVE Succeeding'
  BY <1>3, ReassignAchieved DEF Succeeding, ReassignIPAddress, Perform
<1>4. ASSUME NEW w \in left, DeleteInterface(w) PROVE Succeeding'
  BY <1>4, DeleteAchieved DEF Succeeding, DeleteInterface, Perform
<1>5. ASSUME UNCHANGED <<ifs, at, cmd, works, left, edits>>,
             pc' = "done" => pc = "done" \/ left = {}
      PROVE  Succeeding'
  <2>1. \A p, s : Named(p, s)' = Named(p, s)
    BY <1>5 DEF Named, Exists
  <2> QED
    BY <1>5, <2>1 DEF Succeeding, Achieved, Undone
<1>6. ASSUME (\E w \in left : Refused(w)) \/ Stop \/ Finish \/ RunAgain \/ UNCHANGED vars
      PROVE  Succeeding'
  BY <1>5, <1>6 DEF Refused, Stop, Finish, RunAgain, vars
<1>7. ASSUME NEW port \in Ports, NEW sfx \in SubNumbers, NEW vrf \in VRFs,
             SomeoneAdds(port, sfx, vrf)
      PROVE  Succeeding'
  BY <1>0, <1>7 DEF SomeoneAdds, Succeeding
<1>8. ASSUME NEW i \in Ids, SomeoneDeletes(i) PROVE Succeeding'
  BY <1>0, <1>8 DEF SomeoneDeletes, Succeeding
<1>9. ASSUME NEW ip \in Ips, NEW i \in Ids, SomeoneAssigns(ip, i) PROVE Succeeding'
  BY <1>0, <1>9 DEF SomeoneAssigns, Succeeding
<1> QED
  BY <1>1, <1>2, <1>3, <1>4, <1>6, <1>7, <1>8, <1>9 DEF Next

\* After a run that ends well, with nobody else writing, every gateway it listed
\* is on the subinterface it was listed for, or on nothing if the run has deleted
\* that one; with --delete-empty a subinterface one came from is gone, unless
\* there is an address on it.
THEOREM SuccessIsMoved == Spec => []SuccessMeansMoved
<1>1. Init => Succeeding
  BY DEF Init, Succeeding, Achieved
<1>2. Base /\ Known /\ Apart /\ Succeeding /\ [Next]_vars => Succeeding'
  BY SucceedingStep
<1>3. Base /\ Known /\ Succeeding => SuccessMeansMoved
  <2> SUFFICES ASSUME Base, Known, Succeeding, pc = "done", edits = 0,
                      NEW v \in works, v.op = "move"
               PROVE  /\ Home(v.ip) = IF v.ip \in Undone THEN <<None>> ELSE v.name
                      /\ cmd.deleteEmpty /\ Exists(v.from) => HeldBy(v.from) # {}
    BY DEF SuccessMeansMoved
  <2>1. left = {} /\ Achieved
    BY DEF Succeeding, Achieved
  <2>2. ASSUME v.ip \notin Undone PROVE Home(v.ip) = v.name
    <3>1. at[v.ip] \in Named(v.name[1], v.name[2]) /\ v.name = <<v.name[1], v.name[2]>>
      BY <2>1, <2>2 DEF Achieved, Base, IsWork
    <3>2. at[v.ip] \in Ids /\ <<ifs[at[v.ip]].port, ifs[at[v.ip]].sfx>> = v.name
      BY <3>1 DEF Named
    <3> QED
      BY <3>2 DEF Home
  <2>3. ASSUME v.ip \in Undone PROVE Home(v.ip) = <<None>>
    <3>1. PICK d \in works : d.op = "delete" /\ d.id = v.id /\ v.id \in Ids
      BY <2>3, UndoneIs
    <3>2. ifs[v.id] = Gone
      BY <2>1, <3>1 DEF Achieved
    <3>3. at[v.ip] # v.id
      BY <3>1, <3>2, NoneAssumption DEF Base, Typed, IsWork
    <3>4. at[v.ip] = None
      BY <2>1, <2>3, <3>3 DEF Achieved
    <3> QED
      BY <3>4, NoneAssumption DEF Home
  <2>4. ASSUME cmd.deleteEmpty, Exists(v.from) PROVE HeldBy(v.from) # {}
    <3>1. \A d \in works : ~(d.op = "delete" /\ d.id = v.from)
      BY <2>1, <2>4 DEF Achieved, Exists
    <3>2. \E ip \in Ips : at[ip] = v.from
      BY <2>1, <2>4, <3>1 DEF Achieved
    <3> QED
      BY <3>2 DEF HeldBy
  <2> QED
    BY <2>2, <2>3, <2>4
<1> QED
  BY <1>1, <1>2, <1>3, ApartInvariant, PTL DEF Spec

-----------------------------------------------------------------------------
\* The relocation.

AllPlaces == (Ports \X SubNumbers) \cup {<<None>>, <<OnPort>>, <<OnVm>>}
GoalOf(ip) == (CHOOSE w \in MovesOf(ip) : TRUE).name
Asked == {ip \in Ips : MovesOf(ip) # {}}
Lost == Undone \cup Strays

HomesTyped ==
    /\ \A ip \in Ips : Home(ip) \in AllPlaces
    /\ \A ip \in Asked : GoalOf(ip) \in AllPlaces
    /\ Undone \subseteq Asked

LEMMA HomesAre ==
    ASSUME Base
    PROVE  HomesTyped
<1>1. ASSUME NEW ip \in Ips PROVE Home(ip) \in AllPlaces
  <2>1. CASE at[ip] \in Ids
    BY <2>1 DEF Home, Base, Typed, Subinterface, AllPlaces
  <2>2. CASE at[ip] \notin Ids
    BY <2>2 DEF Home, Base, Typed, AllPlaces
  <2> QED
    BY <2>1, <2>2
<1>2. \A ip \in Asked : GoalOf(ip) \in AllPlaces
  BY DEF Asked, GoalOf, MovesOf, Base, IsWork, AllPlaces
<1>3. ASSUME NEW ip \in Undone PROVE ip \in Asked
  <2>1. PICK w \in works : w.op = "move" /\ w.ip = ip
    BY DEF Undone
  <2>2. ip \in Ips /\ w \in MovesOf(ip)
    BY <2>1 DEF Base, IsWork, MovesOf
  <2> QED
    BY <2>2 DEF Asked
<1> QED
  BY <1>1, <1>2, <1>3 DEF HomesTyped

\* An address is to go to the name in its moves.
LEMMA GoalOfIs ==
    ASSUME Known, NEW v \in works, v.op = "move"
    PROVE  GoalOf(v.ip) = v.name
<1>1. v \in MovesOf(v.ip)
  BY DEF MovesOf
<1>2. (CHOOSE w \in MovesOf(v.ip) : TRUE) \in MovesOf(v.ip)
  BY <1>1
<1>3. \A w \in MovesOf(v.ip) : w.name = v.name
  BY DEF MovesOf, Known
<1> QED
  BY <1>2, <1>3 DEF GoalOf

\* Between plans what is asked for, and what is Undone, stays.
LEMMA AskedStays ==
    ASSUME works' = works
    PROVE  /\ Asked' = Asked /\ Undone' = Undone
           /\ \A ip : GoalOf(ip)' = GoalOf(ip)
           /\ \A ip \in Ips : at'[ip] = at[ip] => (ip \in Strays' <=> ip \in Strays)
<1>1. \A ip : MovesOf(ip)' = MovesOf(ip)
  BY DEF MovesOf
<1>2. Asked' = Asked /\ \A ip : GoalOf(ip)' = GoalOf(ip)
  BY <1>1 DEF Asked, GoalOf
<1>3. Undone' = Undone
  BY DEF Undone
<1>4. \A ip \in Ips : at'[ip] = at[ip] => (ip \in Strays' <=> ip \in Strays)
  BY <1>1 DEF Strays
<1> QED
  BY <1>2, <1>3, <1>4

LEMMA NobodyMoves ==
    ASSUME works' = works,
           \A ip \in Ips : at'[ip] = at[ip] /\ (at[ip] \in Ids => ifs'[at[ip]] = ifs[at[ip]])
    PROVE  UNCHANGED Addresses!vars
<1>1. \A ip \in Ips : Home(ip)' = Home(ip)
  BY DEF Home
<1>2. Strays' = Strays
  <2>1. Strays \subseteq Ips /\ Strays' \subseteq Ips
    BY DEF Strays
  <2> QED
    BY <2>1, AskedStays
<1> QED
  BY <1>1, <1>2, AskedStays DEF Addresses!vars, Asked, GoalOf

LEMMA PlanDecides ==
    ASSUME Base, Base', PlanRun
    PROVE  Addresses!Decide
<1>1. \A ip \in Ips : Home(ip)' = Home(ip)
  BY DEF PlanRun, Home
<1>2. Strays' = {}
  <2>1. ASSUME NEW ip \in Strays' PROVE FALSE
    <3>1. /\ ip \in Ips /\ MovesOf(ip)' = {}
          /\ \E d \in works' : d.op = "delete" /\ d.id = at'[ip]
      BY <2>1 DEF Strays
    <3>2. left' = works'
      BY DEF PlanRun
    <3>3. ToMove(ip)'
      BY <3>1, <3>2, EmptiedIsToMove
    <3> QED
      BY <3>1, <3>2, <3>3 DEF ToMove, MovesOf
  <2> QED
    BY <2>1
<1>3. HomesTyped'
  BY HomesAre, PTL
<1>4. Asked' \in SUBSET Ips
  BY DEF Asked
<1>5. [ip \in Asked' |-> GoalOf(ip)'] \in [Asked' -> AllPlaces]
  BY <1>3 DEF HomesTyped, AllPlaces
<1>6. Lost' \in SUBSET Asked'
  BY <1>2, <1>3 DEF HomesTyped, Lost
<1> QED
  BY <1>1, <1>4, <1>5, <1>6 DEF Addresses!Decide, Asked, GoalOf, Lost, AllPlaces

LEMMA ReassignMoves ==
    ASSUME Base, Known, NEW w \in left, ReassignIPAddress(w)
    PROVE  w.ip \in Ips /\ Addresses!Move(w.ip)
<1>1. /\ w.op = "move" /\ Exists(Resolved(w)) /\ w \in works /\ works' = works /\ ifs' = ifs
      /\ at' = [at EXCEPT ![w.ip] = Resolved(w)]
  BY DEF ReassignIPAddress, Perform, Base, Typed
<1>2. /\ w.ip \in Ips /\ Resolved(w) \in Ids
      /\ Resolved(w) \in Named(w.name[1], w.name[2])
      /\ w.name = <<w.name[1], w.name[2]>>
  BY <1>1, ResolvedIs
<1>3. \A ip \in Ips : at'[ip] = IF ip = w.ip THEN Resolved(w) ELSE at[ip]
  BY <1>1, <1>2 DEF Base, Typed
<1>4. Home(w.ip)' = w.name /\ GoalOf(w.ip) = w.name
  <2>1. Home(w.ip)' = w.name
    BY <1>1, <1>2, <1>3 DEF Home, Named
  <2> QED
    BY <1>1, <2>1, GoalOfIs
<1>5. \A ip \in Ips : ip # w.ip => Home(ip)' = Home(ip)
  BY <1>1, <1>3 DEF Home
<1>6. w.ip \in Asked /\ w.ip \notin Strays /\ w.ip \notin Strays'
  <2>1. w \in MovesOf(w.ip) /\ w \in MovesOf(w.ip)'
    BY <1>1 DEF MovesOf
  <2> QED
    BY <1>2, <2>1 DEF Asked, Strays
<1>7. Strays' = Strays
  <2>1. Strays \subseteq Ips /\ Strays' \subseteq Ips
    BY DEF Strays
  <2> QED
    BY <1>1, <1>3, <1>6, <2>1, AskedStays
<1>8. Asked' = Asked /\ Undone' = Undone /\ \A ip : GoalOf(ip)' = GoalOf(ip)
  BY <1>1, AskedStays
<1> DEFINE goals == [ip \in Asked |-> GoalOf(ip)]
<1>9. w.ip \in DOMAIN goals /\ goals[w.ip] = GoalOf(w.ip)
  BY <1>6
<1>10. [ip \in Ips |-> Home(ip)'] = [[ip \in Ips |-> Home(ip)] EXCEPT ![w.ip] = goals[w.ip]]
  <2> HIDE DEF goals
  <2> QED
    BY <1>2, <1>4, <1>5, <1>9
<1>11. [ip \in Asked' |-> GoalOf(ip)'] = goals /\ (Undone \cup Strays)' = Undone \cup Strays
  BY <1>7, <1>8
<1> QED
  BY <1>2, <1>9, <1>10, <1>11, Zenon DEF Addresses!Move, Asked, GoalOf

\* What a subinterface holds when it is deleted is lost.
LEMMA DeleteLoses ==
    ASSUME Base, Known, Apart, NEW w \in left, DeleteInterface(w)
    PROVE  HeldBy(w.id) \in SUBSET Ips /\ Addresses!Lose(HeldBy(w.id))
<1>1. /\ w.op = "delete" /\ IsNext(w) /\ w.id \in Ids /\ works' = works /\ w \in works
      /\ ifs' = [ifs EXCEPT ![w.id] = Gone]
      /\ at' = [ip \in Ips |-> IF at[ip] = w.id THEN None ELSE at[ip]]
  BY DEF DeleteInterface, Perform, Exists, Base, Typed
<1>2. \A ip : ~ToMove(ip)
  BY <1>1, DeletesAreLast DEF ToMove
<1>3. HeldBy(w.id) \in SUBSET Ips /\ \A ip \in Ips : ip \in HeldBy(w.id) <=> at[ip] = w.id
  BY DEF HeldBy
<1>4. HeldBy(w.id) \subseteq Lost
  <2>1. ASSUME NEW ip \in HeldBy(w.id) PROVE ip \in Lost
    <3>1. ip \in Ips /\ at[ip] = w.id
      BY <1>3
    <3>2. ip \in Undone \/ MovesOf(ip) = {}
      BY <1>1, <1>2, <3>1 DEF Apart
    <3> QED
      BY <1>1, <3>1, <3>2 DEF Lost, Strays
  <2> QED
    BY <2>1
<1>5. ASSUME NEW ip \in Ips
      PROVE  Home(ip)' = IF ip \in HeldBy(w.id) THEN <<None>> ELSE Home(ip)
  <2>1. CASE at[ip] = w.id
    <3>1. at'[ip] = None /\ None \notin Ids
      BY <1>1, <2>1, NoneAssumption
    <3> QED
      BY <1>3, <2>1, <3>1 DEF Home
  <2>2. CASE at[ip] # w.id
    <3>1. at'[ip] = at[ip] /\ (at[ip] \in Ids => ifs'[at[ip]] = ifs[at[ip]])
      BY <1>1, <2>2 DEF Base, Typed
    <3>2. Home(ip)' = Home(ip)
      BY <3>1 DEF Home
    <3> QED
      BY <1>3, <2>2, <3>2
  <2> QED
    BY <2>1, <2>2
<1>6. Strays' \subseteq Strays
  <2>1. \A d \in works : d.op = "delete" => d.id \in Ids
    BY DEF Base, IsWork
  <2>2. \A ip : MovesOf(ip)' = MovesOf(ip)
    BY <1>1 DEF MovesOf
  <2> QED
    BY <1>1, <2>1, <2>2, NoneAssumption DEF Strays
<1>7. Asked' = Asked /\ Undone' = Undone /\ \A ip : GoalOf(ip)' = GoalOf(ip)
  BY <1>1, AskedStays
<1>8. (Undone \cup Strays)' \in SUBSET (Undone \cup Strays)
  BY <1>6, <1>7
<1> QED
  BY <1>3, <1>4, <1>5, <1>7, <1>8 DEF Addresses!Lose, Asked, GoalOf, Lost

LEMMA SomeoneAssignsIs ==
    ASSUME Base, HomesTyped', NEW ip \in Ips, NEW i \in Ids, SomeoneAssigns(ip, i)
    PROVE  \E place \in AllPlaces : Addresses!Assign(ip, place)
<1>1. /\ at[ip] = None /\ None \notin Ids /\ works' = works /\ ifs' = ifs
      /\ \A other \in Ips : at'[other] = IF other = ip THEN i ELSE at[other]
  BY NoneAssumption DEF SomeoneAssigns, Base, Typed
<1>2. Home(ip) = <<None>> /\ Home(ip)' \in AllPlaces
  BY <1>1 DEF Home, HomesTyped
<1>3. \A other \in Ips : other # ip => Home(other)' = Home(other)
  BY <1>1 DEF Home
<1>4. ip \notin Strays
  <2>1. \A d \in works : d.op = "delete" => d.id \in Ids
    BY DEF Base, IsWork
  <2> QED
    BY <1>1, <2>1 DEF Strays
<1>5. Strays' = Strays \/ Strays' = Strays \cup {ip}
  <2>1. Strays \subseteq Ips /\ Strays' \subseteq Ips
    BY DEF Strays
  <2>2. \A other \in Ips : other # ip => (other \in Strays' <=> other \in Strays)
    BY <1>1, AskedStays
  <2> QED
    BY <1>4, <2>1, <2>2
<1>6. Asked' = Asked /\ Undone' = Undone /\ \A other : GoalOf(other)' = GoalOf(other)
  BY <1>1, AskedStays
<1>7. (Undone \cup Strays)' \in {Undone \cup Strays, (Undone \cup Strays) \cup {ip}}
  BY <1>5, <1>6
<1>8. [a \in Ips |-> Home(a)'] = [[a \in Ips |-> Home(a)] EXCEPT ![ip] = Home(ip)']
  BY <1>3
<1> QED
  BY <1>2, <1>6, <1>7, <1>8 DEF Addresses!Assign, Asked, GoalOf

LEMMA RelocationStep ==
    ASSUME Base, Base', HomesTyped', Known, Apart, [Next]_vars
    PROVE  [Addresses!Next]_(Addresses!vars)
<1> DEFINE Same == /\ works' = works
                   /\ \A ip \in Ips : /\ at'[ip] = at[ip]
                                      /\ at[ip] \in Ids => ifs'[at[ip]] = ifs[at[ip]]
<1>0. Typed
  BY DEF Base
<1>1. CASE PlanRun
  BY <1>1, PlanDecides DEF Addresses!Next
<1>2. ASSUME NEW port \in Ports, NEW sfx \in SubNumbers, NEW vrf \in VRFs,
             Add(port, sfx, vrf), at' = at, works' = works
      PROVE  Same
  <2>1. \A ip \in Ips : at[ip] \in Ids => ifs[at[ip]] # None
    BY <1>0, NoneAssumption DEF Typed
  <2> QED
    BY <1>0, <1>2, <2>1, AddIs
<1>3. ASSUME NEW w \in left, CreateInterface(w) PROVE Same
  <2>1. w.port \in Ports /\ w.sfx \in SubNumbers /\ w.vrf \in VRFs
    BY <1>3 DEF CreateInterface, Base, Typed, IsWork
  <2> QED
    BY <1>2, <1>3, <2>1 DEF CreateInterface, Perform
<1>4. ASSUME NEW w \in left, ReassignIPAddress(w) PROVE Addresses!Next
  BY <1>4, ReassignMoves DEF Addresses!Next
<1>5. ASSUME NEW w \in left, DeleteInterface(w) PROVE Addresses!Next
  BY <1>5, DeleteLoses DEF Addresses!Next
<1>6. ASSUME NEW port \in Ports, NEW sfx \in SubNumbers, NEW vrf \in VRFs,
             SomeoneAdds(port, sfx, vrf)
      PROVE  Same
  BY <1>2, <1>6 DEF SomeoneAdds
<1>7. ASSUME NEW i \in Ids, SomeoneDeletes(i) PROVE Same
  BY <1>0, <1>7 DEF SomeoneDeletes, HeldBy, Typed
<1>8. ASSUME NEW ip \in Ips, NEW i \in Ids, SomeoneAssigns(ip, i) PROVE Addresses!Next
  BY <1>8, SomeoneAssignsIs DEF Addresses!Next, AllPlaces
<1>9. ASSUME (\E w \in left : Refused(w)) \/ Stop \/ Finish \/ RunAgain \/ UNCHANGED vars
      PROVE  Same
  BY <1>9 DEF Refused, Stop, Finish, RunAgain, vars
<1>10. ASSUME Same PROVE UNCHANGED Addresses!vars
  BY <1>10, NobodyMoves
<1> HIDE DEF Same
<1> QED
  BY <1>1, <1>3, <1>4, <1>5, <1>6, <1>7, <1>8, <1>9, <1>10 DEF Next

\* Every gateway goes straight from where it is to where it is to go, an address
\* that was not listed is not moved, and only those that are Undone or Strays
\* are unassigned on the way; others may assign what has no place, add
\* subinterfaces and delete empty ones.
THEOREM RunIsARelocation == Spec => ImplementsRelocation
<1>1. Init => Addresses!Init
  <2> SUFFICES ASSUME Init PROVE Addresses!Init
    OBVIOUS
  <2>1. works = {} /\ Undone = {} /\ Strays = {} /\ Asked = {}
    BY DEF Init, Undone, Strays, Asked, MovesOf
  <2>2. \A ip \in Ips : Home(ip) \in AllPlaces
    BY BaseInit, HomesAre DEF HomesTyped
  <2>3. [ip \in Ips |-> Home(ip)] \in [Ips -> AllPlaces]
    BY <2>2 DEF AllPlaces
  <2> QED
    BY <2>1, <2>3 DEF Addresses!Init, Asked, AllPlaces
<1>2. Base => HomesTyped
  BY HomesAre
<1>3. Base /\ Base' /\ HomesTyped' /\ Known /\ Apart /\ [Next]_vars
        => [Addresses!Next]_(Addresses!vars)
  BY RelocationStep
<1> QED
  BY <1>1, <1>2, <1>3, ApartInvariant, PTL DEF Spec, ImplementsRelocation, Addresses!Spec

-----------------------------------------------------------------------------
\* What is left to do after a run that went well.

TargetPorts == {cmd.targets[k] : k \in DOMAIN cmd.targets}

\* From the plan on: what plan() has looked at it would find as sound again, and
\* every gateway is on a target port or about to go there, and every target port
\* has a gateway or is about to get one.
Settling ==
    /\ cmd.targets # << >>
    /\ \A k \in DOMAIN cmd.targets : TreeIsSound(cmd.targets[k])
    /\ \A k \in DOMAIN cmd.vms :
           Skipped(cmd.vms[k]) \/ (cmd.vms[k].peer # None /\ Answering(cmd.vms[k]) # {})
    /\ \A ip \in Gateways : Sound(ip)
    /\ \A v \in left : v.op = "move" => v.ip \in Gateways /\ v.name[1] \in TargetPorts
    /\ \A ip \in Gateways : ToMove(ip) \/ Source(ip).port \in TargetPorts
    /\ \A t \in TargetPorts :
           \/ \E v \in left : v.op = "move" /\ v.name[1] = t
           \/ \E ip \in Gateways : ~ToMove(ip) /\ Source(ip).port = t
    /\ pc = "done" => left = {}

Settled == edits = 0 /\ Undone = {} /\ pc \in {"doing", "done"} => Settling

\* A tree in which the children by parent_id are those by name stays one, whether
\* a subinterface is added as NetBox and the works do it, or one goes.
LEMMA AddKeepsTrees ==
    ASSUME Typed, NEW port \in Ports, NEW sfx \in SubNumbers, NEW vrf \in VRFs,
           Add(port, sfx, vrf), NEW p, TreeIsSound(p)
    PROVE  TreeIsSound(p)'
<1> DEFINE new == [port |-> port, sfx |-> sfx, parent |-> port, vrf |-> vrf]
<1>1. PICK i \in Ids :
          /\ ifs' = [ifs EXCEPT ![i] = new]
          /\ \A j \in Ids : j # i => ifs'[j] = ifs[j] /\ (Exists(j)' <=> Exists(j))
          /\ Exists(i)' /\ ~Exists(i)
  BY AddIs
<1>2. ifs'[i].port = port /\ ifs'[i].parent = port
  BY <1>1 DEF Typed
<1>3. i \in ByParent(p)' <=> i \in ByName(p)'
  BY <1>1, <1>2 DEF ByParent, ByName
<1>4. \A j \in Ids : j # i => /\ j \in ByParent(p)' <=> j \in ByParent(p)
                              /\ j \in ByName(p)' <=> j \in ByName(p)
  BY <1>1 DEF ByParent, ByName
<1>5. ByParent(p)' \subseteq Ids /\ ByName(p)' \subseteq Ids
  BY DEF ByParent, ByName
<1> QED
  BY <1>3, <1>4, <1>5 DEF TreeIsSound

LEMMA GoneKeepsTrees ==
    ASSUME Typed, NEW i \in Ids, Exists(i), ifs' = [ifs EXCEPT ![i] = Gone],
           NEW p, TreeIsSound(p)
    PROVE  TreeIsSound(p)'
<1>1. /\ ~Exists(i)'
      /\ \A j \in Ids : j # i => ifs'[j] = ifs[j] /\ (Exists(j)' <=> Exists(j))
  BY GoneIs
<1>2. ByParent(p)' = ByParent(p) \ {i} /\ ByName(p)' = ByName(p) \ {i}
  BY <1>1 DEF ByParent, ByName
<1> QED
  BY <1>2 DEF TreeIsSound

\* The Nth source port takes the Nth target, so that none of them is left over.
LEMMA TargetsAreTaken ==
    ASSUME Typed, ~PlanFails, NEW k \in DOMAIN cmd.targets
    PROVE  \E ip \in Gateways : TargetOf(ip) = cmd.targets[k]
<1> DEFINE n == Cardinality(SourcePorts)
           nth == [p \in SourcePorts |-> Cardinality(UpTo(p))]
<1>1. n \in Nat /\ k \in 1 .. n /\ SourcePorts \subseteq Nat
  BY SourcePortsAre, FS_CardinalityType
<1>2. IsFiniteSet(1 .. n) /\ Cardinality(1 .. n) = n
  BY <1>1, FS_Interval
<1>3. \A p \in SourcePorts : nth[p] \in 1 .. n
  BY UpToIs
<1>4. ASSUME NEW p \in SourcePorts, NEW q \in SourcePorts, nth[p] = nth[q] PROVE p = q
  BY <1>1, <1>4, UpToIs
<1>5. nth \in Injection(SourcePorts, 1 .. n)
  <2>1. nth \in [SourcePorts -> 1 .. n]
    BY <1>3
  <2> HIDE DEF nth, n
  <2> QED
    BY <1>4, <2>1, Fun_IsInj
<1>6. nth \in Surjection(SourcePorts, 1 .. n)
  <2> HIDE DEF nth
  <2> QED
    BY <1>2, <1>5, FS_Injection
<1>7. PICK p \in SourcePorts : nth[p] = k
  BY <1>1, <1>6 DEF Surjection
<1>8. PICK ip \in Gateways : p = Source(ip).port
  BY DEF SourcePorts
<1> QED
  BY <1>7, <1>8 DEF TargetOf, UpTo

LEMMA PlanSettling ==
    ASSUME Base, PlanRun, pc' = "doing"
    PROVE  Settling'
<1>1. /\ Typed /\ ~PlanFails /\ ifs' = ifs /\ at' = at /\ cmd' = cmd /\ left' = Plan
  BY DEF Base, PlanRun
<1>2. /\ Gateways' = Gateways /\ TargetPorts' = TargetPorts
      /\ \A ip \in Ips : (Sound(ip)' <=> Sound(ip)) /\ Source(ip)' = Source(ip)
      /\ \A p : TreeIsSound(p)' <=> TreeIsSound(p)
  BY <1>1 DEF Gateways, Found, TargetPorts, Sound, Source, TreeIsSound, ByParent, ByName, Exists
<1>3. ASSUME NEW ip \in Gateways
      PROVE  \/ /\ Stays(ip) /\ ~ToMove(ip)' /\ Source(ip).port = TargetOf(ip)
             \/ \E v \in Plan : v.op = "move" /\ v.ip = ip /\ v.name[1] = TargetOf(ip)
  <2>1. PICK g \in Found : g[2] = ip
    BY DEF Gateways
  <2>2. CASE Stays(ip)
    <3>1. at[ip] \in Named(TargetOf(ip), Source(ip).sfx)
      BY <1>1, <2>2, SourceIs, GoalIs DEF Stays
    <3>2. Source(ip).port = TargetOf(ip)
      BY <3>1 DEF Named, Source
    <3>3. ~ToMove(ip)'
      <4>1. ASSUME NEW v \in Plan, v.op = "move", v.ip = ip PROVE FALSE
        <5>1. PICK h \in Found : h \in Moving /\ v = MoveWork(h)
          BY <1>1, <4>1, MovesOfPlan
        <5> QED
          BY <1>1, <2>2, <4>1, <5>1, MoveIs DEF Moving
      <4> QED
        BY <1>1, <4>1 DEF ToMove
    <3> QED
      BY <2>2, <3>2, <3>3
  <2>3. CASE ~Stays(ip)
    <3>1. MoveWork(g) \in Plan
      BY <2>1, <2>3 DEF Plan, GatewayWorks, Moving
    <3> QED
      BY <1>1, <2>1, <3>1, MoveIs, GoalIs
  <2> QED
    BY <2>2, <2>3
<1>4. \A ip \in Gateways : ip \in Ips /\ TargetOf(ip) \in TargetPorts
  <2>1. ASSUME NEW ip \in Gateways PROVE TargetOf(ip) \in TargetPorts
    <3>1. Cardinality(UpTo(Source(ip).port)) \in DOMAIN cmd.targets
      BY <1>1, SourceIs, UpToIs, SourcePortsAre
    <3> QED
      BY <3>1 DEF TargetOf, UpTo, TargetPorts
  <2> QED
    BY <1>1, <2>1, SourceIs
<1>5. ASSUME NEW v \in Plan, v.op = "move" PROVE v.ip \in Gateways /\ v.name[1] \in TargetPorts
  <2>1. PICK g \in Found : v = MoveWork(g)
    BY <1>1, <1>5, MovesOfPlan
  <2>2. g[2] \in Gateways /\ v.ip = g[2] /\ v.name = Goal(g[2])
    BY <1>1, <2>1, MoveIs, FoundIs
  <2> QED
    BY <1>1, <1>4, <2>2, GoalIs
<1>6. \A ip \in Gateways : ToMove(ip)' \/ Source(ip)'.port \in TargetPorts
  BY <1>1, <1>2, <1>3, <1>4 DEF ToMove
<1>7. ASSUME NEW t \in TargetPorts
      PROVE  \/ \E v \in Plan : v.op = "move" /\ v.name[1] = t
             \/ \E ip \in Gateways : ~ToMove(ip)' /\ Source(ip)'.port = t
  <2>1. PICK ip \in Gateways : TargetOf(ip) = t
    BY <1>1, TargetsAreTaken DEF TargetPorts
  <2> QED
    BY <1>2, <1>3, <1>4, <2>1
<1>8. /\ cmd.targets # << >>
      /\ \A k \in DOMAIN cmd.targets : TreeIsSound(cmd.targets[k])
      /\ \A k \in DOMAIN cmd.vms :
             Skipped(cmd.vms[k]) \/ (cmd.vms[k].peer # None /\ Answering(cmd.vms[k]) # {})
      /\ \A ip \in Gateways : Sound(ip)
  BY <1>1 DEF PlanFails
<1>9. (/\ cmd.targets # << >>
       /\ \A k \in DOMAIN cmd.targets : TreeIsSound(cmd.targets[k])
       /\ \A k \in DOMAIN cmd.vms :
              Skipped(cmd.vms[k]) \/ (cmd.vms[k].peer # None /\ Answering(cmd.vms[k]) # {})
       /\ \A ip \in Gateways : Sound(ip))'
  <2>1. /\ \A k \in DOMAIN cmd.targets : TreeIsSound(cmd.targets[k])'
        /\ \A ip \in Gateways : Sound(ip)'
    BY <1>1, <1>2, <1>4, <1>8
  <2> QED
    BY <1>1, <1>2, <1>8, <2>1 DEF Skipped, Answering
<1>10. \A v \in left' : v.op = "move" => v.ip \in Gateways' /\ v.name[1] \in TargetPorts'
  BY <1>1, <1>2, <1>5
<1>11. \A ip \in Gateways' : ToMove(ip)' \/ Source(ip)'.port \in TargetPorts'
  BY <1>2, <1>6
<1>12. \A t \in TargetPorts' :
           \/ \E v \in left' : v.op = "move" /\ v.name[1] = t
           \/ \E ip \in Gateways' : ~ToMove(ip)' /\ Source(ip)'.port = t
  BY <1>1, <1>2, <1>7
<1> QED
  BY <1>9, <1>10, <1>11, <1>12 DEF Settling

\* What a step has to respect for Settling to stay.
LEMMA SettlingStays ==
    ASSUME Base, Settling, cmd' = cmd, pc' = "done" => left' = {}, left' \subseteq left,
           \A p : TreeIsSound(p) => TreeIsSound(p)',
           \A v \in left \ left' : v.op # "move",
           \A ip \in Gateways : at'[ip] = at[ip] /\ ifs'[at[ip]] = ifs[at[ip]]
    PROVE  Settling'
<1>1. Gateways' = Gateways /\ TargetPorts' = TargetPorts
  BY DEF Gateways, Found, TargetPorts
<1>2. \A ip \in Gateways : (Sound(ip)' <=> Sound(ip)) /\ Source(ip)' = Source(ip)
  BY DEF Sound, Source
<1>3. \A ip : ToMove(ip)' <=> ToMove(ip)
  BY DEF ToMove
<1>4. \A ip \in Gateways' : ToMove(ip)' \/ Source(ip)'.port \in TargetPorts'
  BY <1>1, <1>2, <1>3 DEF Settling
<1>5. \A t \in TargetPorts' :
          \/ \E v \in left' : v.op = "move" /\ v.name[1] = t
          \/ \E ip \in Gateways' : ~ToMove(ip)' /\ Source(ip)'.port = t
  BY <1>1, <1>2, <1>3 DEF Settling
<1> QED
  BY <1>1, <1>2, <1>4, <1>5 DEF Settling

LEMMA ReassignSettling ==
    ASSUME Base, Known, Settling, NEW w \in left, ReassignIPAddress(w)
    PROVE  Settling'
<1>1. /\ w.op = "move" /\ Exists(Resolved(w)) /\ w \in works /\ pc' # "done"
      /\ at' = [at EXCEPT ![w.ip] = Resolved(w)] /\ left' = left \ {w}
      /\ UNCHANGED <<ifs, cmd>> /\ left \subseteq works
  BY DEF ReassignIPAddress, Perform, IsNext, Base, Typed
<1>2. w.ip \in Ips /\ Resolved(w) \in Ids /\ Resolved(w) \in Named(w.name[1], w.name[2])
  BY <1>1, ResolvedIs
<1>3. /\ \A ip \in Ips : at'[ip] = IF ip = w.ip THEN Resolved(w) ELSE at[ip]
      /\ Gateways \subseteq Ips
  BY <1>1, <1>2, FoundIs DEF Base, Typed
<1>4. /\ Gateways' = Gateways /\ TargetPorts' = TargetPorts
      /\ \A p : TreeIsSound(p)' <=> TreeIsSound(p)
  BY <1>1 DEF Gateways, Found, TargetPorts, TreeIsSound, ByParent, ByName, Exists
<1>5. w.ip \in Gateways /\ w.name[1] \in TargetPorts
  BY <1>1 DEF Settling
<1>6. Source(w.ip)'.port = w.name[1] /\ Sound(w.ip)'
  <2>1. /\ ifs[Resolved(w)].port = w.name[1] /\ Resolved(w) \in ByName(w.name[1])
    BY <1>2 DEF Named, ByName
  <2>2. PICK k \in DOMAIN cmd.targets : w.name[1] = cmd.targets[k]
    BY <1>5 DEF TargetPorts
  <2>3. Resolved(w) \in ByParent(w.name[1])
    BY <2>1, <2>2 DEF Settling, TreeIsSound
  <2>4. ifs[Resolved(w)].parent = w.name[1]
    BY <2>3 DEF ByParent
  <2> QED
    BY <1>1, <1>2, <1>3, <2>1, <2>4 DEF Source, Sound
<1>7. \A ip \in Gateways : ip # w.ip =>
          /\ (Sound(ip)' <=> Sound(ip)) /\ Source(ip)' = Source(ip)
          /\ ToMove(ip)' <=> ToMove(ip)
  BY <1>1, <1>3 DEF Sound, Source, ToMove
<1>8. ASSUME NEW t \in TargetPorts
      PROVE  \/ \E v \in left' : v.op = "move" /\ v.name[1] = t
             \/ \E ip \in Gateways : ~ToMove(ip)' /\ Source(ip)'.port = t
  <2>1. CASE \E v \in left' : v.op = "move" /\ v.name[1] = t
    BY <2>1
  <2>2. CASE w.name[1] = t /\ \A v \in left' : ~(v.op = "move" /\ v.name[1] = t)
    <3>1. ASSUME NEW v \in left', v.op = "move", v.ip = w.ip PROVE FALSE
      BY <1>1, <2>2, <3>1 DEF Known
    <3>2. ~ToMove(w.ip)'
      BY <3>1 DEF ToMove
    <3> QED
      BY <1>5, <1>6, <2>2, <3>2
  <2>3. CASE w.name[1] # t /\ \A v \in left' : ~(v.op = "move" /\ v.name[1] = t)
    <3>1. \A v \in left : ~(v.op = "move" /\ v.name[1] = t)
      BY <1>1, <2>3
    <3>2. PICK ip \in Gateways : ~ToMove(ip) /\ Source(ip).port = t
      BY <3>1 DEF Settling
    <3>3. ip # w.ip
      BY <1>1, <3>2 DEF ToMove
    <3> QED
      BY <1>7, <3>2, <3>3
  <2> QED
    BY <2>1, <2>2, <2>3
<1>9. \A ip \in Gateways : Sound(ip)' /\ (ToMove(ip)' \/ Source(ip)'.port \in TargetPorts)
  BY <1>5, <1>6, <1>7 DEF Settling
<1> QED
  BY <1>1, <1>4, <1>8, <1>9 DEF Settling

LEMMA SettledStep ==
    ASSUME Base, Known, Apart, Settled, [Next]_vars
    PROVE  Settled'
<1>0. edits \in Nat /\ Typed /\ \A ip \in Gateways : ip \in Ips
  BY FoundIs DEF Base, Typed, IsCommand
<1>1. CASE PlanRun
  BY <1>1, PlanSettling DEF Settled, PlanRun
<1> SUFFICES ASSUME ~PlanRun, edits' = 0, Undone' = {}, pc' \in {"doing", "done"}
             PROVE  Settling'
  BY <1>1 DEF Settled
<1>2. edits = 0 /\ Undone = {}
  BY <1>0, StepIs DEF Undone
<1>3. ASSUME NEW w \in left, CreateInterface(w) PROVE Settling'
  <2>1. w.port \in Ports /\ w.sfx \in SubNumbers /\ w.vrf \in VRFs
    BY <1>3 DEF CreateInterface, Base, Typed, IsWork
  <2>2. /\ Add(w.port, w.sfx, w.vrf) /\ pc = "doing" /\ pc' = "doing" /\ cmd' = cmd
        /\ at' = at /\ left' = left \ {w} /\ w.op = "create" /\ Settling
    BY <1>2, <1>3 DEF CreateInterface, Perform, IsNext, Settled
  <2>3. \A p : TreeIsSound(p) => TreeIsSound(p)'
    BY <1>0, <2>1, <2>2, AddKeepsTrees
  <2>4. ASSUME NEW ip \in Gateways PROVE ifs'[at[ip]] = ifs[at[ip]]
    <3>1. at[ip] \in Ids /\ ifs[at[ip]] # None
      BY <1>0, <2>2, NoneAssumption DEF Settling, Sound, Typed
    <3> QED
      BY <1>0, <2>1, <2>2, <3>1, AddIs
  <2> QED
    BY <2>2, <2>3, <2>4, SettlingStays
<1>4. ASSUME NEW w \in left, ReassignIPAddress(w) PROVE Settling'
  BY <1>2, <1>4, ReassignSettling DEF Settled, ReassignIPAddress, IsNext
<1>5. ASSUME NEW w \in left, DeleteInterface(w) PROVE Settling'
  <2>1. /\ w.op = "delete" /\ IsNext(w) /\ w.id \in Ids /\ Exists(w.id)
        /\ ifs' = [ifs EXCEPT ![w.id] = Gone]
        /\ at' = [ip \in Ips |-> IF at[ip] = w.id THEN None ELSE at[ip]]
        /\ pc = "doing" /\ pc' = "doing" /\ cmd' = cmd /\ left' = left \ {w} /\ Settling
    BY <1>2, <1>5 DEF DeleteInterface, Perform, Exists, IsNext, Settled
  <2>2. \A ip : ~ToMove(ip)
    BY <2>1, DeletesAreLast DEF ToMove
  <2>3. \A ip \in Ips : at[ip] # w.id
    BY <1>2, <2>1, <2>2 DEF Apart
  <2>4. \A p : TreeIsSound(p) => TreeIsSound(p)'
    BY <1>0, <2>1, GoneKeepsTrees
  <2>5. ASSUME NEW ip \in Gateways PROVE at'[ip] = at[ip] /\ ifs'[at[ip]] = ifs[at[ip]]
    BY <1>0, <2>1, <2>3 DEF Settling, Sound, Typed
  <2>6. \A v \in left \ left' : v.op # "move"
    BY <2>1
  <2> QED
    BY <2>1, <2>4, <2>5, <2>6, SettlingStays
<1>6. ASSUME UNCHANGED <<ifs, at, cmd, left>>, pc = "doing" \/ pc' = pc,
             pc' = "done" => pc = "done" \/ left = {}
      PROVE  Settling'
  <2>1. Settling /\ (pc' = "done" => left' = {})
    BY <1>2, <1>6 DEF Settled, Settling
  <2>2. \A p : TreeIsSound(p) => TreeIsSound(p)'
    BY <1>6 DEF TreeIsSound, ByParent, ByName, Exists
  <2> QED
    BY <1>6, <2>1, <2>2, SettlingStays
<1>7. CASE Stop \/ Finish \/ UNCHANGED vars
  BY <1>6, <1>7 DEF Stop, Finish, vars
<1>8. CASE RunAgain \/ \E w \in left : Refused(w)
  BY <1>8 DEF RunAgain, Refused
<1>9. ASSUME NEW port \in Ports, NEW sfx \in SubNumbers, NEW vrf \in VRFs,
             SomeoneAdds(port, sfx, vrf)
      PROVE  Settling'
  BY <1>2, <1>9 DEF SomeoneAdds
<1>10. ASSUME NEW i \in Ids, SomeoneDeletes(i) PROVE Settling'
  BY <1>2, <1>10 DEF SomeoneDeletes
<1>11. ASSUME NEW ip \in Ips, NEW i \in Ids, SomeoneAssigns(ip, i) PROVE Settling'
  BY <1>2, <1>11 DEF SomeoneAssigns
<1> QED
  BY <1>3, <1>4, <1>5, <1>7, <1>8, <1>9, <1>10, <1>11 DEF Next

\* Ascending targets that are all in use are paired with themselves.
LEMMA SettledIsPlanned ==
    ASSUME Base, Settling, left = {}, AscendingTargets
    PROVE  ~PlanFails /\ Plan = {}
<1> DEFINE n == Len(cmd.targets)
           first(k) == {cmd.targets[j] : j \in 1 .. k}
<1>1. /\ Typed /\ n \in Nat /\ DOMAIN cmd.targets = 1 .. n
      /\ \A k \in 1 .. n : cmd.targets[k] \in Nat
  BY DEF Base, Typed, IsCommand
<1>2. \A j, k \in 1 .. n : /\ cmd.targets[j] = cmd.targets[k] => j = k
                           /\ cmd.targets[j] <= cmd.targets[k] <=> j <= k
  <2>1. \A j, k \in 1 .. n : j < k => cmd.targets[j] < cmd.targets[k]
    BY <1>1 DEF AscendingTargets
  <2> QED
    BY <1>1, <2>1
<1>3. ASSUME NEW k \in 0 .. n PROVE Cardinality(first(k)) = k
  <2> DEFINE nth == [j \in 1 .. k |-> cmd.targets[j]]
  <2>1. k \in Nat /\ \A j \in 1 .. k : j \in 1 .. n
    BY <1>1
  <2>2. nth \in [1 .. k -> first(k)]
    OBVIOUS
  <2>3. \A i, j \in 1 .. k : nth[i] = nth[j] => i = j
    BY <1>2, <2>1
  <2>4. \A t \in first(k) : \E j \in 1 .. k : nth[j] = t
    OBVIOUS
  <2>5. nth \in Bijection(1 .. k, first(k))
    <3> HIDE DEF nth, first
    <3> QED
      BY <2>2, <2>3, <2>4, Fun_IsBij
  <2>6. IsFiniteSet(1 .. k) /\ Cardinality(1 .. k) = k
    BY <2>1, FS_Interval
  <2> QED
    <3> HIDE DEF nth, first
    <3> QED
      BY <2>5, <2>6, FS_Bijection, Fun_ExistsBij
<1>4. ASSUME NEW ip \in Gateways
      PROVE  /\ ip \in Ips /\ Sound(ip) /\ at[ip] \in Ids /\ Source(ip).port \in TargetPorts
             /\ at[ip] \in Named(Source(ip).port, Source(ip).sfx)
  <2>1. ip \in Ips /\ Sound(ip) /\ Source(ip).port \in TargetPorts
    BY <1>1, FoundIs DEF Settling, ToMove
  <2>2. at[ip] \in Ids /\ Exists(at[ip])
    BY <1>1, <2>1, ExistsIs DEF Sound, Typed
  <2> QED
    BY <2>1, <2>2 DEF Named, Source
<1>5. SourcePorts = TargetPorts
  <2>1. \A t \in TargetPorts : \E ip \in Gateways : Source(ip).port = t
    BY DEF Settling
  <2> QED
    BY <1>4, <2>1 DEF SourcePorts
<1>6. TargetPorts = first(n)
  BY <1>1 DEF TargetPorts
<1>7. Cardinality(SourcePorts) = n
  <2> HIDE DEF first
  <2> QED
    BY <1>1, <1>3, <1>5, <1>6
<1>8. ASSUME NEW ip \in Gateways PROVE Stays(ip)
  <2>1. PICK k \in 1 .. n : Source(ip).port = cmd.targets[k]
    BY <1>4, <1>6
  <2>2. {port \in SourcePorts : port <= Source(ip).port} = first(k)
    <3>1. \A j \in 1 .. k : j \in 1 .. n /\ j <= k
      BY <1>1
    <3>2. \A j \in 1 .. n : cmd.targets[j] <= cmd.targets[k] => j \in 1 .. k
      BY <1>1, <1>2
    <3>3. \A j \in 1 .. k : cmd.targets[j] <= cmd.targets[k]
      BY <1>2, <3>1
    <3> QED
      BY <1>5, <1>6, <2>1, <3>1, <3>2, <3>3
  <2>3. TargetOf(ip) = cmd.targets[k]
    <3>1. Cardinality(first(k)) = k
      BY <1>1, <1>3
    <3>2. TargetOf(ip) = cmd.targets[Cardinality(first(k))]
      BY <2>2 DEF TargetOf
    <3> HIDE DEF first
    <3> QED
      BY <3>1, <3>2
  <2> QED
    BY <1>1, <1>4, <2>1, <2>3, NamedIsOne DEF Stays, Goal
<1>9. ~PlanFails
  <2>1. \A ip \in Gateways : Sound(ip) /\ ~WrongVrf(ip)
    BY <1>4, <1>8 DEF WrongVrf
  <2> QED
    BY <1>7, <2>1 DEF PlanFails, Settling
<1>10. Moving = {}
  BY <1>8 DEF Moving, Gateways
<1>11. GatewayWorks = {} /\ Emptied = {}
  BY <1>10 DEF GatewayWorks, Emptied, Moved
<1> QED
  BY <1>9, <1>11 DEF Plan

\* "Nothing to do": a run that went well, with ascending targets of which it has
\* deleted none and with nobody else writing, can be given again.  It is not
\* refused what it has made itself, and finds every gateway where it should be.
THEOREM SuccessIsSettled == Spec => []SecondRunDoesNothing
<1>1. Init => Settled
  BY DEF Init, Settled
<1>2. Base /\ Known /\ Apart /\ Settled /\ [Next]_vars => Settled'
  BY SettledStep
<1>3. Base /\ Settled => SecondRunDoesNothing
  <2> SUFFICES ASSUME Base, Settled, pc = "done", edits = 0, Undone = {}, AscendingTargets
               PROVE  ~PlanFails /\ Plan = {}
    BY DEF SecondRunDoesNothing
  <2>1. Settling /\ left = {}
    BY DEF Settled, Settling
  <2> QED
    BY <2>1, SettledIsPlanned
<1> QED
  BY <1>1, <1>2, <1>3, ApartInvariant, PTL DEF Spec
=============================================================================
