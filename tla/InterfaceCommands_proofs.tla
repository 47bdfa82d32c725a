---------------------- MODULE InterfaceCommands_proofs ----------------------
(***************************************************************************)
(* For any NetBoxes, scripts and bounds: properties of InterfaceCommands.  *)
(***************************************************************************)
EXTENDS InterfaceCommands, FunctionTheorems, TLAPS

-----------------------------------------------------------------------------
\* Tables.

\* What is in use holds a record.
LEMMA InterfacesInUse ==
  ASSUME NEW t \in [Ids -> Interface \cup {None, Gone}]
  PROVE  InUse(t) = {i \in Ids : t[i] \in Interface}
  BY NoneAssumption DEF InUse, Exists

LEMMA AddressesInUse ==
  ASSUME NEW t \in [Ips -> Address \cup {None, Gone}]
  PROVE  InUse(t) = {ip \in Ips : t[ip] \in Address}
  BY NoneAssumption DEF InUse, Exists

LEMMA ExistsInUse ==
  ASSUME NEW t, NEW id
  PROVE  Exists(t, id) <=> id \in InUse(t)
  BY DEF InUse, Exists

\* The parts of IsNetBox, of the NetBox as it is.
TablesOK ==
    /\ ifs \in [Ids -> Interface \cup {None, Gone}]
    /\ ips \in [Ips -> Address \cup {None, Gone}]
    /\ at \in [Ports \cup OtherEnds -> CableEnds \cup {None}]
NamesAreUnique ==
    \A i, j \in InUse(ifs) : ifs[i].port = ifs[j].port /\ ifs[i].sub = ifs[j].sub => i = j
ParentsExist ==
    \A i \in InUse(ifs) : ifs[i].parent # None => ifs[i].parent \in InUse(ifs)
NothingDangles ==
    \A ip \in InUse(ips) : ips[ip].on # None => ips[ip].on \in InUse(ifs)
TwiceOnlyAnycast ==
    \A ip, other \in InUse(ips) :
        /\ ip # other
        /\ ips[ip].addr = ips[other].addr /\ ips[ip].vrf = ips[other].vrf
        => ips[ip].anycast

NetBoxOK == TablesOK /\ NamesAreUnique /\ ParentsExist /\ NothingDangles /\ TwiceOnlyAnycast

LEMMA NetBoxParts == IsNetBox(netbox) <=> NetBoxOK
  BY ExistsInUse
  DEF IsNetBox, netbox, NetBoxOK, TablesOK, NamesAreUnique, ParentsExist, NothingDangles,
      TwiceOnlyAnycast

\* What a name stands for.
LEMMA IdOfName ==
  ASSUME TablesOK, NEW port, NEW sub
  PROVE  /\ IdOf(port, sub) # None => IdOf(port, sub) \in Named(port, sub)
         /\ IdOf(port, sub) = None <=> Named(port, sub) = {}
<1>1. None \notin Named(port, sub)
  BY NoneAssumption, InterfacesInUse DEF TablesOK, Named
<1>2. Named(port, sub) # {} => (CHOOSE i \in Named(port, sub) : TRUE) \in Named(port, sub)
  OBVIOUS
<1> QED BY <1>1, <1>2 DEF IdOf

LEMMA IdOfInUse ==
  ASSUME TablesOK, NamesAreUnique, NEW i \in InUse(ifs)
  PROVE  IdOf(ifs[i].port, ifs[i].sub) = i
<1>1. i \in Named(ifs[i].port, ifs[i].sub)
  BY DEF Named
<1>2. IdOf(ifs[i].port, ifs[i].sub) \in Named(ifs[i].port, ifs[i].sub)
  BY <1>1, IdOfName
<1> QED BY <1>2 DEF Named, NamesAreUnique

-----------------------------------------------------------------------------
\* Works, and what they do.

ValueSet == [conf : Confs, kind : Kinds, vrf : VRFs \cup {None}]

IsWork(w) ==
    \/ w.op = "ModifyCable" /\ w.port \in Ports /\ w.end \in CableEnds
    \/ /\ w.op = "CreateInterface"
       /\ w.port \in Ports /\ w.sub \in SubNumbers \cup {0} /\ w.values \in ValueSet
    \/ w.op = "ModifyInterface" /\ w.values \in ValueSet
    \/ w.op \in {"DeleteInterface", "DeleteIPAddress", "ModifyIPAddress"}
    \/ w.op = "ReassignIPAddress"
    \/ w.op = "AssignIPAddress" /\ w.addr \in Addrs /\ w.vrf \in VRFs \cup {None}

CableMoves(w) ==
    /\ w.op = "ModifyCable" /\ w.port \in Ports /\ w.end \in CableEnds
    /\ at[w.port] \in {None, w.end}
    /\ at' = [t \in DOMAIN at |-> IF t = w.port THEN w.end
                                  ELSE IF at[t] = w.end THEN None ELSE at[t]]
    /\ ifs' = ifs /\ ips' = ips
Creates(w, i) ==
    /\ w.op = "CreateInterface" /\ i \in Ids /\ ifs[i] = None
    /\ w.port \in Ports /\ w.sub \in SubNumbers \cup {0} /\ w.values \in ValueSet
    /\ Named(w.port, w.sub) = {} /\ w.parent \in InUse(ifs)
    /\ ifs' = [ifs EXCEPT ![i] =
                  [port |-> w.port, sub |-> w.sub, parent |-> w.parent,
                   conf |-> w.values.conf, kind |-> w.values.kind, vrf |-> w.values.vrf]]
    /\ ips' = ips /\ at' = at
Modifies(w) ==
    /\ w.op = "ModifyInterface" /\ w.id \in InUse(ifs) /\ w.values \in ValueSet
    /\ ifs' = [ifs EXCEPT ![w.id] = Configure(@, w.values)]
    /\ ips' = ips /\ at' = at
Deletes(w) ==
    /\ w.op = "DeleteInterface" /\ w.id \in InUse(ifs)
    /\ \A i \in InUse(ifs) : ifs[i].parent # w.id
    /\ ifs' = [ifs EXCEPT ![w.id] = Gone]
    /\ ips' = Unassign(w.id)
    /\ at' = at
DeletesIp(w) ==
    /\ w.op = "DeleteIPAddress" /\ w.id \in InUse(ips)
    /\ ips' = [ips EXCEPT ![w.id] = Gone]
    /\ ifs' = ifs /\ at' = at
MakesAnycast(w) ==
    /\ w.op = "ModifyIPAddress" /\ w.id \in InUse(ips)
    /\ ips' = [ips EXCEPT ![w.id].anycast = TRUE]
    /\ ifs' = ifs /\ at' = at
Reassigns(w) ==
    /\ w.op = "ReassignIPAddress" /\ w.id \in InUse(ips)
    /\ IdOf(w.port, w.sub) \in Named(w.port, w.sub)
    /\ ips' = [ips EXCEPT ![w.id].on = IdOf(w.port, w.sub)]
    /\ ifs' = ifs /\ at' = at
Assigns(w, ip) ==
    /\ w.op = "AssignIPAddress" /\ ip \in Ips /\ ips[ip] = None
    /\ w.addr \in Addrs /\ w.vrf \in VRFs \cup {None}
    /\ Destination(w) \in InUse(ifs)
    /\ \A other \in InUse(ips) :
           ips[other].addr = w.addr /\ ips[other].vrf = w.vrf => ips[other].anycast
    /\ ips' = [ips EXCEPT ![ip] = [addr |-> w.addr, on |-> Destination(w),
                                   anycast |-> TRUE, vrf |-> w.vrf]]
    /\ ifs' = ifs /\ at' = at

\* A work that is done is one of these.
LEMMA WorkDone ==
  ASSUME TablesOK, NEW w, IsWork(w), Resolves(w), Accepts(w), Execute(w)
  PROVE  \/ CableMoves(w) \/ \E i \in Ids : Creates(w, i)
         \/ Modifies(w) \/ Deletes(w)
         \/ DeletesIp(w) \/ MakesAnycast(w)
         \/ Reassigns(w) \/ \E ip \in Ips : Assigns(w, ip)
<1>1. CASE w.op = "ModifyCable"
  BY <1>1 DEF IsWork, Accepts, Execute, CableMoves
<1>2. CASE w.op = "CreateInterface"
  BY <1>2, ExistsInUse DEF IsWork, Accepts, Execute, Creates, IsFresh
<1>3. CASE w.op = "ModifyInterface"
  BY <1>3, ExistsInUse DEF IsWork, Accepts, Execute, Modifies
<1>4. CASE w.op = "DeleteInterface"
  BY <1>4, ExistsInUse DEF Accepts, Execute, Deletes
<1>5. CASE w.op = "DeleteIPAddress"
  BY <1>5, ExistsInUse DEF Accepts, Execute, DeletesIp
<1>6. CASE w.op = "ModifyIPAddress"
  BY <1>6, ExistsInUse DEF Accepts, Execute, MakesAnycast
<1>7. CASE w.op = "ReassignIPAddress"
  BY <1>7, ExistsInUse, IdOfName DEF Resolves, Accepts, Execute, Reassigns, Destination
<1>8. CASE w.op = "AssignIPAddress"
  BY <1>8, ExistsInUse DEF IsWork, Accepts, Execute, Assigns, IsFresh
<1> QED
  BY <1>1, <1>2, <1>3, <1>4, <1>5, <1>6, <1>7, <1>8 DEF IsWork

-----------------------------------------------------------------------------
\* The tables after a work.

\* Ports, numbers and parents of interfaces stay; so do address and VRF of records.
SameInterfaces ==
    /\ InUse(ifs)' = InUse(ifs)
    /\ \A i \in InUse(ifs) : /\ ifs'[i].port = ifs[i].port /\ ifs'[i].sub = ifs[i].sub
                             /\ ifs'[i].parent = ifs[i].parent
SameRecords(S) ==
    \A ip \in S : ips'[ip].addr = ips[ip].addr /\ ips'[ip].vrf = ips[ip].vrf

LEMMA AfterCableMoves ==
  ASSUME TablesOK, NEW w, CableMoves(w)
  PROVE  TablesOK' /\ ifs' = ifs /\ ips' = ips
  BY DEF TablesOK, CableMoves

LEMMA AfterCreates ==
  ASSUME TablesOK, NEW w, NEW i, Creates(w, i)
  PROVE  /\ TablesOK'
         /\ i \notin InUse(ifs) /\ InUse(ifs)' = InUse(ifs) \cup {i}
         /\ \A j \in InUse(ifs) : ifs'[j] = ifs[j]
         /\ ifs'[i].port = w.port /\ ifs'[i].sub = w.sub /\ ifs'[i].parent = w.parent
         /\ Values(i)' = w.values
         /\ ips' = ips
<1>1. i \in Ids /\ w.parent \in Ids
  BY InterfacesInUse DEF Creates, TablesOK
<1>2. [port |-> w.port, sub |-> w.sub, parent |-> w.parent, conf |-> w.values.conf,
       kind |-> w.values.kind, vrf |-> w.values.vrf] \in Interface
  BY <1>1 DEF Creates, ValueSet, Interface
<1>3. TablesOK' /\ ips' = ips
  BY <1>2 DEF Creates, TablesOK
<1>4. InUse(ifs)' = {j \in Ids : ifs'[j] \in Interface}
  BY <1>3, InterfacesInUse DEF TablesOK
<1>5. InUse(ifs) = {j \in Ids : ifs[j] \in Interface}
  BY InterfacesInUse DEF TablesOK
<1>6. i \notin InUse(ifs)
  BY <1>5, NoneAssumption DEF Creates
<1>7. InUse(ifs)' = InUse(ifs) \cup {i}
  BY <1>1, <1>2, <1>4, <1>5 DEF Creates, TablesOK
<1>8. \A j \in InUse(ifs) : ifs'[j] = ifs[j]
  BY <1>5, <1>6 DEF Creates, TablesOK
<1>9. /\ ifs'[i].port = w.port /\ ifs'[i].sub = w.sub /\ ifs'[i].parent = w.parent
      /\ Values(i)' = w.values
  BY <1>1 DEF Creates, TablesOK, Values, ValueSet
<1> QED BY <1>3, <1>6, <1>7, <1>8, <1>9

LEMMA AfterModifies ==
  ASSUME TablesOK, NEW w, Modifies(w)
  PROVE  /\ TablesOK' /\ SameInterfaces
         /\ \A i \in InUse(ifs) : i # w.id => ifs'[i] = ifs[i]
         /\ Values(w.id)' = w.values
         /\ ips' = ips
<1>1. w.id \in Ids /\ ifs[w.id] \in Interface
  BY InterfacesInUse DEF Modifies, TablesOK
<1>2. /\ Configure(ifs[w.id], w.values) \in Interface
      /\ \A f \in {"port", "sub", "parent"} : Configure(ifs[w.id], w.values)[f] = ifs[w.id][f]
      /\ Configure(ifs[w.id], w.values).conf = w.values.conf
      /\ Configure(ifs[w.id], w.values).kind = w.values.kind
      /\ Configure(ifs[w.id], w.values).vrf = w.values.vrf
  BY <1>1 DEF Modifies, Configure, Interface, ValueSet
<1>3. /\ TablesOK' /\ ips' = ips
      /\ ifs'[w.id] = Configure(ifs[w.id], w.values)
      /\ \A i \in Ids : i # w.id => ifs'[i] = ifs[i]
  BY <1>1, <1>2 DEF Modifies, TablesOK
<1>4. /\ InUse(ifs)' = {j \in Ids : ifs'[j] \in Interface}
      /\ InUse(ifs) = {j \in Ids : ifs[j] \in Interface}
  BY <1>3, InterfacesInUse DEF TablesOK
<1>5. SameInterfaces
  BY <1>1, <1>2, <1>3, <1>4 DEF SameInterfaces
<1>6. Values(w.id)' = w.values
  BY <1>2, <1>3 DEF Values, Modifies, ValueSet
<1> QED BY <1>3, <1>4, <1>5, <1>6

LEMMA AfterDeletes ==
  ASSUME TablesOK, NEW w, Deletes(w)
  PROVE  /\ TablesOK'
         /\ InUse(ifs)' = InUse(ifs) \ {w.id}
         /\ \A i \in Ids : i # w.id => ifs'[i] = ifs[i]
         /\ ifs'[w.id] = Gone
         /\ InUse(ips)' = InUse(ips) /\ SameRecords(InUse(ips))
         /\ \A ip \in InUse(ips) :
                /\ ips'[ip].anycast = ips[ip].anycast
                /\ ips'[ip].on = IF ips[ip].on = w.id THEN None ELSE ips[ip].on
                /\ ips[ip].on # w.id => ips'[ip] = ips[ip]
         /\ \A ip \in Ips : ip \notin InUse(ips) => ips'[ip] = ips[ip]
<1>1. /\ w.id \in Ids
      /\ InUse(ifs) = {i \in Ids : ifs[i] \in Interface}
      /\ InUse(ips) = {ip \in Ips : ips[ip] \in Address}
  BY InterfacesInUse, AddressesInUse DEF Deletes, TablesOK
<1>2. IpsOn(w.id) = {ip \in InUse(ips) : ips[ip].on = w.id}
  BY DEF IpsOn
<1>3. \A ip \in InUse(ips) : [ips[ip] EXCEPT !.on = None] \in Address
  BY <1>1 DEF Address
<1>4. /\ ips' \in [Ips -> Address \cup {None, Gone}]
      /\ \A ip \in Ips : ips'[ip] = IF ip \in InUse(ips) /\ ips[ip].on = w.id
                                    THEN [ips[ip] EXCEPT !.on = None] ELSE ips[ip]
  BY <1>1, <1>2, <1>3 DEF Deletes, Unassign, TablesOK
<1>5. /\ TablesOK' /\ ifs'[w.id] = Gone /\ \A i \in Ids : i # w.id => ifs'[i] = ifs[i]
  BY <1>1, <1>4 DEF Deletes, TablesOK
<1>6. InUse(ifs)' = InUse(ifs) \ {w.id}
  BY <1>1, <1>5, InterfacesInUse, NoneAssumption DEF TablesOK
<1>7. InUse(ips)' = InUse(ips)
  BY <1>1, <1>3, <1>4, <1>5, AddressesInUse DEF TablesOK
<1>8. \A ip \in InUse(ips) :
         /\ ips'[ip].anycast = ips[ip].anycast
         /\ ips'[ip].on = IF ips[ip].on = w.id THEN None ELSE ips[ip].on
         /\ ips[ip].on # w.id => ips'[ip] = ips[ip]
         /\ ips'[ip].addr = ips[ip].addr /\ ips'[ip].vrf = ips[ip].vrf
  BY <1>1, <1>4 DEF Address
<1> QED BY <1>1, <1>4, <1>5, <1>6, <1>7, <1>8 DEF SameRecords

LEMMA AfterDeletesIp ==
  ASSUME TablesOK, NEW w, DeletesIp(w)
  PROVE  /\ TablesOK' /\ ifs' = ifs
         /\ InUse(ips)' = InUse(ips) \ {w.id}
         /\ \A ip \in Ips : ip # w.id => ips'[ip] = ips[ip]
<1>1. InUse(ips) = {ip \in Ips : ips[ip] \in Address}
  BY AddressesInUse DEF TablesOK
<1>2. TablesOK' /\ ifs' = ifs /\ ips'[w.id] = Gone /\ \A ip \in Ips : ip # w.id => ips'[ip] = ips[ip]
  BY <1>1 DEF DeletesIp, TablesOK
<1>3. InUse(ips)' = {ip \in Ips : ips'[ip] \in Address}
  BY <1>2, AddressesInUse DEF TablesOK
<1> QED BY <1>1, <1>2, <1>3, NoneAssumption

\* The works that change one field of a record.
LEMMA AfterMakesAnycast ==
  ASSUME TablesOK, NEW w, MakesAnycast(w)
  PROVE  /\ TablesOK' /\ ifs' = ifs
         /\ InUse(ips)' = InUse(ips) /\ SameRecords(InUse(ips))
         /\ \A ip \in InUse(ips) : ips'[ip].on = ips[ip].on
         /\ \A ip \in InUse(ips) : ip # w.id => ips'[ip] = ips[ip]
         /\ ips'[w.id].anycast
<1>1. InUse(ips) = {ip \in Ips : ips[ip] \in Address}
  BY AddressesInUse DEF TablesOK
<1>2. [ips[w.id] EXCEPT !.anycast = TRUE] \in Address
  BY <1>1 DEF MakesAnycast, Address
<1>3. /\ TablesOK' /\ ifs' = ifs /\ ips'[w.id] = [ips[w.id] EXCEPT !.anycast = TRUE]
      /\ \A ip \in Ips : ip # w.id => ips'[ip] = ips[ip]
  BY <1>1, <1>2 DEF MakesAnycast, TablesOK
<1>4. InUse(ips)' = {ip \in Ips : ips'[ip] \in Address}
  BY <1>3, AddressesInUse DEF TablesOK
<1>5. w.id \in InUse(ips)
  BY DEF MakesAnycast
<1>6. InUse(ips)' = InUse(ips)
  BY <1>1, <1>2, <1>3, <1>4, <1>5
<1>7. \A ip \in InUse(ips) : ip # w.id => ips'[ip] = ips[ip]
  BY <1>1, <1>3
<1>8. /\ ips'[w.id].addr = ips[w.id].addr /\ ips'[w.id].vrf = ips[w.id].vrf
      /\ ips'[w.id].on = ips[w.id].on /\ ips'[w.id].anycast
  BY <1>1, <1>3, <1>5 DEF Address
<1> QED BY <1>3, <1>6, <1>7, <1>8 DEF SameRecords

LEMMA AfterPutOn ==
  ASSUME TablesOK, NEW ip \in InUse(ips), NEW i \in InUse(ifs),
         ips' = [ips EXCEPT ![ip].on = i], ifs' = ifs, at' = at
  PROVE  /\ TablesOK'
         /\ InUse(ips)' = InUse(ips) /\ SameRecords(InUse(ips))
         /\ \A other \in InUse(ips) : ips'[other].anycast = ips[other].anycast
         /\ \A other \in InUse(ips) : other # ip => ips'[other] = ips[other]
         /\ ips'[ip].on = i
<1>1. /\ InUse(ips) = {r \in Ips : ips[r] \in Address}
      /\ i \in Ids
  BY AddressesInUse, InterfacesInUse DEF TablesOK
<1>2. [ips[ip] EXCEPT !.on = i] \in Address
  BY <1>1 DEF Address
<1>3. /\ TablesOK' /\ ips'[ip] = [ips[ip] EXCEPT !.on = i]
      /\ \A other \in Ips : other # ip => ips'[other] = ips[other]
  BY <1>1, <1>2 DEF TablesOK
<1>4. InUse(ips)' = {r \in Ips : ips'[r] \in Address}
  BY <1>3, AddressesInUse DEF TablesOK
<1>5. InUse(ips)' = InUse(ips)
  <2>1. ip \in Ips /\ ips[ip] \in Address /\ ips'[ip] \in Address
    BY <1>1, <1>2, <1>3
  <2> QED BY <1>1, <1>3, <1>4, <2>1
<1>6. \A other \in InUse(ips) : other # ip => ips'[other] = ips[other]
  BY <1>1, <1>3
<1>7. /\ ips'[ip].addr = ips[ip].addr /\ ips'[ip].vrf = ips[ip].vrf
      /\ ips'[ip].anycast = ips[ip].anycast /\ ips'[ip].on = i
  BY <1>1, <1>3 DEF Address
<1> QED BY <1>3, <1>5, <1>6, <1>7 DEF SameRecords

LEMMA AfterReassigns ==
  ASSUME TablesOK, NEW w, Reassigns(w)
  PROVE  /\ TablesOK' /\ ifs' = ifs
         /\ InUse(ips)' = InUse(ips) /\ SameRecords(InUse(ips))
         /\ \A ip \in InUse(ips) : ips'[ip].anycast = ips[ip].anycast
         /\ \A ip \in InUse(ips) : ip # w.id => ips'[ip] = ips[ip]
         /\ ips'[w.id].on = IdOf(w.port, w.sub)
         /\ IdOf(w.port, w.sub) \in Named(w.port, w.sub)
<1>1. IdOf(w.port, w.sub) \in InUse(ifs)
  BY DEF Reassigns, Named
<1>2. /\ w.id \in InUse(ips) /\ ips' = [ips EXCEPT ![w.id].on = IdOf(w.port, w.sub)]
      /\ ifs' = ifs /\ at' = at /\ IdOf(w.port, w.sub) \in Named(w.port, w.sub)
  BY DEF Reassigns
<1> QED BY <1>1, <1>2, AfterPutOn

LEMMA AfterAssigns ==
  ASSUME TablesOK, NEW w, NEW ip, Assigns(w, ip)
  PROVE  /\ TablesOK' /\ ifs' = ifs
         /\ ip \notin InUse(ips) /\ InUse(ips)' = InUse(ips) \cup {ip}
         /\ \A other \in InUse(ips) : ips'[other] = ips[other]
         /\ ips'[ip] = [addr |-> w.addr, on |-> Destination(w), anycast |-> TRUE,
                        vrf |-> w.vrf]
<1>1. /\ InUse(ips) = {r \in Ips : ips[r] \in Address}
      /\ Destination(w) \in Ids
  BY AddressesInUse, InterfacesInUse DEF TablesOK, Assigns
<1>2. [addr |-> w.addr, on |-> Destination(w), anycast |-> TRUE, vrf |-> w.vrf] \in Address
  BY <1>1 DEF Assigns, Address
<1>3. /\ TablesOK' /\ ifs' = ifs
      /\ ips'[ip] = [addr |-> w.addr, on |-> Destination(w), anycast |-> TRUE, vrf |-> w.vrf]
      /\ \A other \in Ips : other # ip => ips'[other] = ips[other]
  BY <1>2 DEF Assigns, TablesOK
<1>4. InUse(ips)' = {r \in Ips : ips'[r] \in Address}
  BY <1>3, AddressesInUse DEF TablesOK
<1>5. ip \in Ips /\ ip \notin InUse(ips)
  BY <1>1, NoneAssumption DEF Assigns
<1> QED BY <1>1, <1>2, <1>3, <1>4, <1>5

\* What preserves the parts that are about records alone, and the others.
LEMMA RecordsStay ==
  ASSUME TwiceOnlyAnycast, InUse(ips)' \subseteq InUse(ips), SameRecords(InUse(ips)'),
         \A ip \in InUse(ips)' : ips[ip].anycast => ips'[ip].anycast
  PROVE  TwiceOnlyAnycast'
  BY DEF TwiceOnlyAnycast, SameRecords

LEMMA InterfacesStay ==
  ASSUME NamesAreUnique, ParentsExist, SameInterfaces
  PROVE  NamesAreUnique' /\ ParentsExist'
  BY DEF NamesAreUnique, ParentsExist, SameInterfaces

LEMMA StaysNetBox ==
  ASSUME NetBoxOK, NEW w, IsWork(w), Resolves(w), Accepts(w), Execute(w)
  PROVE  NetBoxOK'
<1>0. TablesOK /\ NamesAreUnique /\ ParentsExist /\ NothingDangles /\ TwiceOnlyAnycast
  BY DEF NetBoxOK
<1>a. \A i \in InUse(ifs) : i # None
  BY <1>0, InterfacesInUse, NoneAssumption DEF TablesOK
<1>s. ifs' = ifs => SameInterfaces
  BY DEF SameInterfaces
<1>1. CASE CableMoves(w)
  <2>1. TablesOK' /\ ifs' = ifs /\ ips' = ips
    BY <1>0, <1>1, AfterCableMoves
  <2> QED
    BY <1>0, <2>1 DEF NetBoxOK, NamesAreUnique, ParentsExist, NothingDangles, TwiceOnlyAnycast
<1>2. ASSUME NEW i \in Ids, Creates(w, i) PROVE NetBoxOK'
  <2>1. /\ TablesOK'
        /\ i \notin InUse(ifs) /\ InUse(ifs)' = InUse(ifs) \cup {i}
        /\ \A j \in InUse(ifs) : ifs'[j] = ifs[j]
        /\ ifs'[i].port = w.port /\ ifs'[i].sub = w.sub /\ ifs'[i].parent = w.parent
        /\ ips' = ips
    BY <1>0, <1>2, AfterCreates
  <2>2. Named(w.port, w.sub) = {} /\ w.parent \in InUse(ifs)
    BY <1>2 DEF Creates
  <2>3. NamesAreUnique'
    BY <1>0, <2>1, <2>2 DEF NamesAreUnique, Named
  <2>4. ParentsExist'
    BY <1>0, <2>1, <2>2 DEF ParentsExist
  <2>5. NothingDangles' /\ TwiceOnlyAnycast'
    BY <1>0, <2>1 DEF NothingDangles, TwiceOnlyAnycast
  <2> QED BY <2>1, <2>3, <2>4, <2>5 DEF NetBoxOK
<1>3. CASE Modifies(w)
  <2>1. TablesOK' /\ SameInterfaces /\ ips' = ips
    BY <1>0, <1>3, AfterModifies
  <2>2. NothingDangles' /\ TwiceOnlyAnycast'
    BY <1>0, <2>1 DEF NothingDangles, TwiceOnlyAnycast, SameInterfaces
  <2> QED BY <1>0, <2>1, <2>2, InterfacesStay DEF NetBoxOK
<1>4. CASE Deletes(w)
  <2>1. /\ TablesOK'
        /\ InUse(ifs)' = InUse(ifs) \ {w.id}
        /\ \A i \in Ids : i # w.id => ifs'[i] = ifs[i]
        /\ InUse(ips)' = InUse(ips) /\ SameRecords(InUse(ips))
        /\ \A ip \in InUse(ips) :
               /\ ips'[ip].anycast = ips[ip].anycast
               /\ ips'[ip].on = IF ips[ip].on = w.id THEN None ELSE ips[ip].on
    BY <1>0, <1>4, AfterDeletes
  <2>2. /\ InUse(ifs) \subseteq Ids
        /\ \A i \in InUse(ifs) : ifs[i].parent # w.id
    BY <1>0, <1>4, InterfacesInUse DEF Deletes, TablesOK
  <2>3. \A i \in InUse(ifs)' : i \in InUse(ifs) /\ i # w.id /\ ifs'[i] = ifs[i]
    BY <2>1, <2>2
  <2>4. NamesAreUnique'
    BY <1>0, <2>3 DEF NamesAreUnique
  <2>5. ParentsExist'
    BY <1>0, <2>1, <2>2, <2>3 DEF ParentsExist
  <2>6. NothingDangles'
    BY <1>0, <2>1 DEF NothingDangles
  <2>7. TwiceOnlyAnycast'
    BY <1>0, <2>1, RecordsStay
  <2> QED BY <2>1, <2>4, <2>5, <2>6, <2>7 DEF NetBoxOK
<1>5. CASE DeletesIp(w)
  <2>1. /\ TablesOK' /\ ifs' = ifs
        /\ InUse(ips)' = InUse(ips) \ {w.id}
        /\ \A ip \in Ips : ip # w.id => ips'[ip] = ips[ip]
    BY <1>0, <1>5, AfterDeletesIp
  <2>2. InUse(ips) \subseteq Ips
    BY <1>0, AddressesInUse DEF TablesOK
  <2>3. \A ip \in InUse(ips)' : ip \in InUse(ips) /\ ips'[ip] = ips[ip]
    BY <2>1, <2>2
  <2>4. NothingDangles'
    BY <1>0, <2>1, <2>3 DEF NothingDangles
  <2>5. TwiceOnlyAnycast'
    BY <1>0, <2>3 DEF TwiceOnlyAnycast
  <2> QED BY <1>0, <1>s, <2>1, <2>4, <2>5, InterfacesStay DEF NetBoxOK
<1>6. CASE MakesAnycast(w)
  <2>1. /\ TablesOK' /\ ifs' = ifs
        /\ InUse(ips)' = InUse(ips) /\ SameRecords(InUse(ips))
        /\ \A ip \in InUse(ips) : ips'[ip].on = ips[ip].on
        /\ \A ip \in InUse(ips) : ip # w.id => ips'[ip] = ips[ip]
        /\ ips'[w.id].anycast
    BY <1>0, <1>6, AfterMakesAnycast
  <2>2. NothingDangles'
    BY <1>0, <2>1 DEF NothingDangles
  <2>3. TwiceOnlyAnycast'
    BY <1>0, <2>1, RecordsStay
  <2> QED BY <1>0, <1>s, <2>1, <2>2, <2>3, InterfacesStay DEF NetBoxOK
<1>7. CASE Reassigns(w)
  <2>1. /\ TablesOK' /\ ifs' = ifs
        /\ InUse(ips)' = InUse(ips) /\ SameRecords(InUse(ips))
        /\ \A ip \in InUse(ips) : ips'[ip].anycast = ips[ip].anycast
        /\ \A ip \in InUse(ips) : ip # w.id => ips'[ip] = ips[ip]
        /\ ips'[w.id].on = IdOf(w.port, w.sub)
        /\ IdOf(w.port, w.sub) \in InUse(ifs)
    BY <1>0, <1>7, AfterReassigns DEF Named
  <2>2. NothingDangles'
    BY <1>0, <2>1 DEF NothingDangles
  <2>3. TwiceOnlyAnycast'
    BY <1>0, <2>1, RecordsStay
  <2> QED BY <1>0, <1>s, <2>1, <2>2, <2>3, InterfacesStay DEF NetBoxOK
<1>8. ASSUME NEW ip \in Ips, Assigns(w, ip) PROVE NetBoxOK'
  <2>1. /\ TablesOK' /\ ifs' = ifs
        /\ ip \notin InUse(ips) /\ InUse(ips)' = InUse(ips) \cup {ip}
        /\ \A other \in InUse(ips) : ips'[other] = ips[other]
        /\ ips'[ip] = [addr |-> w.addr, on |-> Destination(w), anycast |-> TRUE,
                       vrf |-> w.vrf]
    BY <1>0, <1>8, AfterAssigns
  <2>2. /\ Destination(w) \in InUse(ifs)
        /\ \A other \in InUse(ips) :
               ips[other].addr = w.addr /\ ips[other].vrf = w.vrf => ips[other].anycast
    BY <1>8 DEF Assigns
  <2>3. /\ ips'[ip].on = Destination(w) /\ ips'[ip].anycast
        /\ ips'[ip].addr = w.addr /\ ips'[ip].vrf = w.vrf
    BY <2>1
  <2>4. NothingDangles'
    BY <1>0, <2>1, <2>2, <2>3 DEF NothingDangles
  <2>5. TwiceOnlyAnycast'
    BY <1>0, <2>1, <2>2, <2>3 DEF TwiceOnlyAnycast
  <2> QED BY <1>0, <1>s, <2>1, <2>4, <2>5, InterfacesStay DEF NetBoxOK
<1> QED
  BY <1>0, <1>1, <1>2, <1>3, <1>4, <1>5, <1>6, <1>7, <1>8, WorkDone

-----------------------------------------------------------------------------
\* What the plans consist of.

LEMMA CommandIs ==
  ASSUME script \in Seq(Command) \ {<< >>}
  PROVE  /\ cmd \in Command
         /\ Zapping \/ Migrating \/ Cloning \/ Setting
         /\ Zapping \/ Setting => cmd.targets \in Seq(Ports)
         /\ Migrating \/ Cloning => cmd.src \in Ports /\ cmd.tgt \in Ports
         /\ Setting => cmd.kind \in Kinds
<1>1. cmd \in Command
  BY DEF cmd
<1> QED BY <1>1 DEF Command, Zapping, Migrating, Cloning, Setting

\* A tree that is sound: the port, and its subinterfaces.
LEMMA SoundTree ==
  ASSUME TablesOK, NEW port, TreeIsSound(port)
  PROVE  /\ IdOf(port, 0) \in InUse(ifs) /\ IdOf(port, 0) # None
         /\ ifs[IdOf(port, 0)].port = port /\ ifs[IdOf(port, 0)].sub = 0
         /\ \A i \in ByParent(port) : i \in InUse(ifs) /\ ifs[i].port = port /\ ifs[i].sub # 0
         /\ \A i \in InUse(ifs) : ifs[i].port = port /\ ifs[i].sub # 0 => i \in ByParent(port)
<1>1. IdOf(port, 0) \in Named(port, 0)
  BY IdOfName DEF TreeIsSound
<1> QED BY <1>1 DEF TreeIsSound, Named, ByName

ZapWork(w, k, i) ==
    \/ \E ip \in IpsOn(i) :
           \/ ifs[i].sub # 0 /\ w = DeleteIPAddress(<<k, 1, ifs[i].sub, 1, ip>>, ip)
           \/ ifs[i].sub = 0 /\ w = DeleteIPAddress(<<k, 2, ifs[i].sub, 1, ip>>, ip)
    \/ ifs[i].sub # 0 /\ w = DeleteInterface(<<k, 1, ifs[i].sub, 2>>, i)
    \/ /\ ifs[i].sub = 0 /\ Values(i) # ZappedValues(i)
       /\ w = ModifyInterface(<<k, 2, ifs[i].sub, 2>>, i, ZappedValues(i))

LEMMA ZapPlanned ==
  ASSUME TablesOK, NamesAreUnique, NEW targets \in Seq(Ports), ~ZapFails(targets)
  PROVE  \A w : w \in ZapPlan(targets) <=>
             \E k \in DOMAIN targets, i \in InUse(ifs) :
                 ifs[i].port = targets[k] /\ ZapWork(w, k, i)
<1> SUFFICES ASSUME NEW w
             PROVE  w \in ZapPlan(targets) <=>
                        \E k \in DOMAIN targets, i \in InUse(ifs) :
                            ifs[i].port = targets[k] /\ ZapWork(w, k, i)
  OBVIOUS
<1>1. ASSUME NEW k \in DOMAIN targets
      PROVE  w \in ZapOne(k, targets[k]) <=>
                 \E i \in InUse(ifs) : ifs[i].port = targets[k] /\ ZapWork(w, k, i)
  <2> DEFINE port == targets[k]
             p == IdOf(port, 0)
  <2>1. TreeIsSound(port)
    BY DEF ZapFails
  <2>2. /\ p \in InUse(ifs) /\ ifs[p].port = port /\ ifs[p].sub = 0
        /\ \A i \in ByParent(port) : i \in InUse(ifs) /\ ifs[i].port = port /\ ifs[i].sub # 0
        /\ \A i \in InUse(ifs) : ifs[i].port = port /\ ifs[i].sub # 0 => i \in ByParent(port)
    BY <2>1, SoundTree
  <2>3. w \in ZapOne(k, port) <=> (\E i \in ByParent(port) : w \in ZapChild(k, i)) \/ w \in ZapPort(k, p)
    BY DEF ZapOne
  <2>4. \A i \in ByParent(port) : w \in ZapChild(k, i) <=> ZapWork(w, k, i)
    BY <2>2 DEF ZapChild, DeleteIps, ZapWork
  <2>5. w \in ZapPort(k, p) <=> ZapWork(w, k, p)
    BY <2>2 DEF ZapPort, ZapFields, DeleteIps, ZapWork
  <2>6. \A i \in InUse(ifs) : ifs[i].port = port => i = p \/ i \in ByParent(port)
    BY <2>2 DEF NamesAreUnique
  <2> QED BY <2>2, <2>3, <2>4, <2>5, <2>6
<1> QED BY <1>1 DEF ZapPlan

MigrateWork(w, src, tgt, i) ==
    \/ at[src] # None /\ w = ModifyCable(<<1>>, SourceEnd(src), tgt)
    \/ \E ip \in IpsOn(i) : w = ReassignIPAddress(<<2, ifs[i].sub, 2, ip>>, ip, tgt, ifs[i].sub)
    \/ /\ ifs[i].sub = 0 /\ Values(i) # Values(IdOf(tgt, 0))
       /\ w = ModifyInterface(<<2, 0, 1>>, IdOf(tgt, 0), Values(i))
    \/ /\ ifs[i].sub # 0
       /\ w = CreateInterface(<<2, ifs[i].sub, 1>>, tgt, ifs[i].sub, IdOf(tgt, 0), Values(i))
    \/ ifs[i].sub # 0 /\ w = DeleteInterface(<<2, ifs[i].sub, 3>>, i)

LEMMA MigratePlanned ==
  ASSUME TablesOK, NamesAreUnique, NEW src, NEW tgt, ~MigrateFails(src, tgt)
  PROVE  \A w : w \in MigratePlan(src, tgt) <=>
             \E i \in InUse(ifs) : ifs[i].port = src /\ MigrateWork(w, src, tgt, i)
<1> SUFFICES ASSUME NEW w
             PROVE  w \in MigratePlan(src, tgt) <=>
                        \E i \in InUse(ifs) : ifs[i].port = src /\ MigrateWork(w, src, tgt, i)
  OBVIOUS
<1> DEFINE p == IdOf(src, 0)
<1>1. /\ p \in InUse(ifs) /\ ifs[p].port = src /\ ifs[p].sub = 0
      /\ \A i \in ByParent(src) : i \in InUse(ifs) /\ ifs[i].port = src /\ ifs[i].sub # 0
      /\ \A i \in InUse(ifs) : ifs[i].port = src /\ ifs[i].sub # 0 => i \in ByParent(src)
  BY SoundTree DEF MigrateFails
<1>2. \A i \in InUse(ifs) : ifs[i].port = src => i = p \/ i \in ByParent(src)
  BY <1>1 DEF NamesAreUnique
<1>3. w \in MigratePlan(src, tgt) <=>
          \/ w \in MoveCable(src, tgt) \/ w \in MovePort(p, tgt)
          \/ \E i \in ByParent(src) : w \in MoveChild(i, tgt)
  BY DEF MigratePlan
<1>4. w \in MoveCable(src, tgt) <=> at[src] # None /\ w = ModifyCable(<<1>>, SourceEnd(src), tgt)
  BY DEF MoveCable
<1>5. \A i \in ByParent(src) :
          w \in MoveCable(src, tgt) \/ w \in MoveChild(i, tgt) <=> MigrateWork(w, src, tgt, i)
  BY <1>1, <1>4 DEF MoveChild, MoveIps, MigrateWork
<1>6. w \in MoveCable(src, tgt) \/ w \in MovePort(p, tgt) <=> MigrateWork(w, src, tgt, p)
  BY <1>1, <1>4 DEF MovePort, MoveIps, MigrateWork
<1> QED BY <1>1, <1>2, <1>3, <1>5, <1>6

CloneWork(w, tgt, i) ==
    LET sub == ifs[i].sub
        j == IdOf(tgt, sub)
    IN  \/ \E ip \in Missing(i, j) :
               \/ ~ips[ip].anycast /\ w = MakeAnycast(<<sub, 2, ip, 1>>, ip)
               \/ w = AssignIPAddress(<<sub, 2, ip, 2>>, ip, j, tgt, sub)
        \/ j = None /\ w = CreateInterface(<<sub, 1>>, tgt, sub, IdOf(tgt, 0), Values(i))
        \/ /\ j # None /\ Values(i) # Values(j)
           /\ w = ModifyInterface(<<sub, 1>>, j, Values(i))

LEMMA ClonePlanned ==
  ASSUME TablesOK, NamesAreUnique, NEW src, NEW tgt, ~CloneFails(src, tgt)
  PROVE  \A w : w \in ClonePlan(src, tgt) <=>
             \E i \in InUse(ifs) :
                 /\ ifs[i].port = src /\ (ifs[i].sub = 0 \/ ifs[i].conf # NotCloned)
                 /\ CloneWork(w, tgt, i)
<1> SUFFICES ASSUME NEW w
             PROVE  w \in ClonePlan(src, tgt) <=>
                        \E i \in InUse(ifs) :
                            /\ ifs[i].port = src /\ (ifs[i].sub = 0 \/ ifs[i].conf # NotCloned)
                            /\ CloneWork(w, tgt, i)
  OBVIOUS
<1> DEFINE p == IdOf(src, 0)
<1>1. /\ p \in InUse(ifs) /\ ifs[p].port = src /\ ifs[p].sub = 0
      /\ \A i \in ByParent(src) : i \in InUse(ifs) /\ ifs[i].port = src /\ ifs[i].sub # 0
      /\ \A i \in InUse(ifs) : ifs[i].port = src /\ ifs[i].sub # 0 => i \in ByParent(src)
  BY SoundTree DEF CloneFails
<1>2. \A i : i \in {p} \cup Cloned(src) <=>
          /\ i \in InUse(ifs) /\ ifs[i].port = src
          /\ ifs[i].sub = 0 \/ ifs[i].conf # NotCloned
  BY <1>1 DEF NamesAreUnique, Cloned
<1>3. w \in ClonePlan(src, tgt) <=> \E i \in {p} \cup Cloned(src) : w \in CloneOne(i, tgt)
  BY DEF ClonePlan
<1>4. ASSUME NEW i PROVE w \in CloneOne(i, tgt) <=> CloneWork(w, tgt, i)
  BY DEF CloneOne, CopyIp, CloneWork
<1> QED BY <1>2, <1>3, <1>4

SetTypeWork(w, k, i, type) ==
    ifs[i].kind # type /\ w = ModifyInterface(<<k>>, i, RetypedValues(i, type))

LEMMA SetTypePlanned ==
  ASSUME TablesOK, NEW targets, NEW type, ~SetTypeFails(targets),
         NEW w, w \in SetTypePlan(targets, type)
  PROVE  \E k \in DOMAIN targets, i \in InUse(ifs) :
             ifs[i].port = targets[k] /\ ifs[i].sub = 0 /\ SetTypeWork(w, k, i, type)
<1>1. PICK k \in DOMAIN targets : w \in SetTypeOne(k, targets[k], type)
  BY DEF SetTypePlan
<1>2. IdOf(targets[k], 0) \in Named(targets[k], 0)
  BY IdOfName DEF SetTypeFails
<1>3. SetTypeWork(w, k, IdOf(targets[k], 0), type)
  BY <1>1 DEF SetTypeOne, SetTypeWork
<1> QED BY <1>2, <1>3 DEF Named

\* Every plan is made of works.
LEMMA PlanIsTyped ==
  ASSUME TablesOK, NamesAreUnique, script \in Seq(Command) \ {<< >>}, ~Fails
  PROVE  \A w \in ThePlan : IsWork(w)
<1> SUFFICES ASSUME NEW w, w \in ThePlan PROVE IsWork(w)
  OBVIOUS
<1>0. /\ Zapping \/ Migrating \/ Cloning \/ Setting
      /\ Zapping \/ Setting => cmd.targets \in Seq(Ports)
      /\ Migrating \/ Cloning => cmd.src \in Ports /\ cmd.tgt \in Ports
      /\ Setting => cmd.kind \in Kinds
  BY CommandIs
<1>1. /\ InUse(ifs) = {i \in Ids : ifs[i] \in Interface}
      /\ InUse(ips) = {ip \in Ips : ips[ip] \in Address}
  BY InterfacesInUse, AddressesInUse DEF TablesOK
<1>2. \A i \in InUse(ifs) :
         /\ Values(i) \in ValueSet /\ ZappedValues(i) \in ValueSet
         /\ ifs[i].sub \in SubNumbers \cup {0}
         /\ \A kind \in Kinds : RetypedValues(i, kind) \in ValueSet
  BY <1>1, FieldsAssumption DEF Interface, Values, ZappedValues, RetypedValues, ValueSet
<1>3. \A i \in InUse(ifs) : \A ip \in IpsOn(i) :
         ips[ip].addr \in Addrs /\ ips[ip].vrf \in VRFs \cup {None}
  BY <1>1 DEF IpsOn, Address
<1>4. CASE Zapping
  <2>1. ~ZapFails(cmd.targets) /\ w \in ZapPlan(cmd.targets)
    BY <1>4 DEF Fails, ThePlan, Zapping, Migrating, Cloning, Setting
  <2>2. PICK k \in DOMAIN cmd.targets, i \in InUse(ifs) : ZapWork(w, k, i)
    BY <1>0, <1>4, <2>1, ZapPlanned
  <2> QED
    BY <1>2, <2>2 DEF ZapWork, IsWork, DeleteIPAddress, DeleteInterface, ModifyInterface
<1>5. CASE Migrating
  <2>1. ~MigrateFails(cmd.src, cmd.tgt) /\ w \in MigratePlan(cmd.src, cmd.tgt)
    BY <1>5 DEF Fails, ThePlan, Zapping, Migrating, Cloning, Setting
  <2>2. PICK i \in InUse(ifs) : MigrateWork(w, cmd.src, cmd.tgt, i)
    BY <2>1, MigratePlanned
  <2>3. at[cmd.src] # None => SourceEnd(cmd.src) \in CableEnds
    <3>1. at[cmd.src] # None => at[cmd.src] \in CableEnds
      BY <1>0, <1>5 DEF TablesOK
    <3>2. at[cmd.src] # None => at[cmd.src][1] \in Cables
      BY <3>1 DEF CableEnds
    <3> QED BY <3>2 DEF SourceEnd, CableEnds
  <2> QED
    BY <1>0, <1>2, <1>5, <2>2, <2>3
    DEF MigrateWork, IsWork, ModifyCable, ReassignIPAddress, ModifyInterface,
        CreateInterface, DeleteInterface
<1>6. CASE Cloning
  <2>1. ~CloneFails(cmd.src, cmd.tgt) /\ w \in ClonePlan(cmd.src, cmd.tgt)
    BY <1>6 DEF Fails, ThePlan, Zapping, Migrating, Cloning, Setting
  <2>2. PICK i \in InUse(ifs) : CloneWork(w, cmd.tgt, i)
    BY <2>1, ClonePlanned
  <2>3. \A ip \in Missing(i, IdOf(cmd.tgt, ifs[i].sub)) :
           ips[ip].addr \in Addrs /\ ips[ip].vrf \in VRFs \cup {None}
    BY <1>3 DEF Missing
  <2> QED
    BY <1>0, <1>2, <1>6, <2>2, <2>3
    DEF CloneWork, IsWork, MakeAnycast, AssignIPAddress, CreateInterface, ModifyInterface
<1>7. CASE Setting
  <2>1. ~SetTypeFails(cmd.targets) /\ w \in SetTypePlan(cmd.targets, cmd.kind)
    BY <1>7 DEF Fails, ThePlan, Zapping, Migrating, Cloning, Setting
  <2>2. PICK k \in DOMAIN cmd.targets, i \in InUse(ifs) : SetTypeWork(w, k, i, cmd.kind)
    BY <2>1, SetTypePlanned
  <2> QED BY <1>0, <1>2, <1>7, <2>2 DEF SetTypeWork, IsWork, ModifyInterface
<1> QED BY <1>0, <1>4, <1>5, <1>6, <1>7

-----------------------------------------------------------------------------
\* The states are states of the program.

ScalarsOK ==
    /\ pc \in {"plan", "do", "done", "stopped", "refused", "failed"}
    /\ run \in 1 .. limits.maxRuns
    /\ edits \in 0 .. limits.maxEdits
    /\ script \in Seq(Command) \ {<< >>}
    /\ pc \in {"plan", "done"} => works = {}
    /\ limits.maxRuns \in Nat /\ limits.maxEdits \in Nat

\* TypeOK, and what it takes to be inductive.
TypeInv ==
    /\ NetBoxOK /\ IsNetBox(was) /\ ScalarsOK
    /\ \A w \in works : IsWork(w)

LEMMA TypeInvImplies == TypeInv => TypeOK
  BY NetBoxParts DEF TypeInv, ScalarsOK, TypeOK

LEMMA InitTypeInv == Init => TypeInv
<1> SUFFICES ASSUME Init PROVE TypeInv
  OBVIOUS
<1>1. PICK situation \in Situations :
         /\ ifs = situation.netbox.ifs /\ ips = situation.netbox.ips
         /\ at = situation.netbox.at /\ script = situation.script
         /\ limits = [maxRuns |-> situation.maxRuns, maxEdits |-> situation.maxEdits]
  BY DEF Init
<1>2. /\ IsNetBox(situation.netbox)
      /\ situation.script \in Seq(Command) \ {<< >>}
      /\ situation.maxRuns \in Nat \ {0} /\ situation.maxEdits \in Nat
  BY SituationsAssumption
<1>3. IsNetBox(netbox)
  BY <1>1, <1>2 DEF IsNetBox, netbox
<1>4. ScalarsOK
  <2>1. /\ limits.maxRuns \in Nat \ {0} /\ limits.maxEdits \in Nat
        /\ script \in Seq(Command) \ {<< >>}
    BY <1>1, <1>2
  <2> QED BY <2>1 DEF ScalarsOK, Init
<1> QED BY <1>3, <1>4, NetBoxParts DEF TypeInv, Init

\* A step that leaves NetBox alone.
LEMMA NetBoxUnchanged ==
  ASSUME NetBoxOK, ifs' = ifs, ips' = ips, at' = at
  PROVE  NetBoxOK' /\ netbox' = netbox
  BY DEF NetBoxOK, TablesOK, NamesAreUnique, ParentsExist, NothingDangles, TwiceOnlyAnycast,
         InUse, Exists, netbox

LEMMA AssignsStaysNetBox ==
  ASSUME NetBoxOK, NEW ip, NEW i, SomeoneAssigns(ip, i)
  PROVE  NetBoxOK'
<1>1. /\ TablesOK /\ NamesAreUnique /\ ParentsExist /\ NothingDangles /\ TwiceOnlyAnycast
      /\ ip \in InUse(ips) /\ i \in InUse(ifs)
      /\ ips' = [ips EXCEPT ![ip].on = i] /\ ifs' = ifs /\ at' = at
  BY DEF NetBoxOK, SomeoneAssigns
<1>2. /\ TablesOK'
      /\ InUse(ips)' = InUse(ips) /\ SameRecords(InUse(ips))
      /\ \A other \in InUse(ips) : ips'[other].anycast = ips[other].anycast
      /\ \A other \in InUse(ips) : other # ip => ips'[other] = ips[other]
      /\ ips'[ip].on = i
  BY <1>1, AfterPutOn
<1>3. SameInterfaces
  BY <1>1 DEF SameInterfaces
<1>4. NamesAreUnique' /\ ParentsExist'
  BY <1>1, <1>3, InterfacesStay
<1>5. NothingDangles'
  BY <1>1, <1>2 DEF NothingDangles
<1>6. TwiceOnlyAnycast'
  BY <1>1, <1>2, RecordsStay
<1> QED BY <1>2, <1>4, <1>5, <1>6 DEF NetBoxOK

\* What is left when somebody deletes an interface.
LEMMA AfterSomeoneDeletes ==
  ASSUME TablesOK, NEW i, SomeoneDeletes(i)
  PROVE  /\ TablesOK'
         /\ i \in InUse(ifs) /\ InUse(ifs)' = InUse(ifs) \ {i}
         /\ \A j \in Ids : j # i => ifs'[j] = ifs[j]
         /\ ifs'[i] = Gone
         /\ \A j \in InUse(ifs) : ifs[j].parent # i
         /\ \A ip \in InUse(ips) : ips[ip].on # i
         /\ ips' = ips
<1>1. InUse(ifs) = {j \in Ids : ifs[j] \in Interface}
  BY InterfacesInUse DEF TablesOK
<1>2. /\ TablesOK' /\ ifs'[i] = Gone /\ ips' = ips
      /\ \A j \in Ids : j # i => ifs'[j] = ifs[j]
  BY <1>1 DEF SomeoneDeletes, TablesOK
<1>3. InUse(ifs)' = {j \in Ids : ifs'[j] \in Interface}
  BY <1>2, InterfacesInUse DEF TablesOK
<1>4. InUse(ifs)' = InUse(ifs) \ {i}
  BY <1>1, <1>2, <1>3, NoneAssumption
<1>5. \A ip \in InUse(ips) : ips[ip].on # i
  BY DEF SomeoneDeletes, IpsOn
<1> QED BY <1>2, <1>4, <1>5 DEF SomeoneDeletes

LEMMA DeletesStaysNetBox ==
  ASSUME NetBoxOK, NEW i, SomeoneDeletes(i)
  PROVE  NetBoxOK'
<1>1. TablesOK /\ NamesAreUnique /\ ParentsExist /\ NothingDangles /\ TwiceOnlyAnycast
  BY DEF NetBoxOK
<1>2. /\ TablesOK'
      /\ i \in InUse(ifs) /\ InUse(ifs)' = InUse(ifs) \ {i}
      /\ \A j \in Ids : j # i => ifs'[j] = ifs[j]
      /\ \A j \in InUse(ifs) : ifs[j].parent # i
      /\ \A ip \in InUse(ips) : ips[ip].on # i
      /\ ips' = ips
  BY <1>1, AfterSomeoneDeletes
<1>3. \A j \in InUse(ifs)' : j \in InUse(ifs) /\ j # i /\ ifs'[j] = ifs[j]
  BY <1>1, <1>2, InterfacesInUse DEF TablesOK
<1>4. NamesAreUnique'
  BY <1>1, <1>3 DEF NamesAreUnique
<1>5. ParentsExist'
  BY <1>1, <1>2, <1>3 DEF ParentsExist
<1>6. NothingDangles' /\ TwiceOnlyAnycast'
  BY <1>1, <1>2 DEF NothingDangles, TwiceOnlyAnycast
<1> QED BY <1>2, <1>4, <1>5, <1>6 DEF NetBoxOK

LEMMA NextTypeInv == TypeInv /\ [Next]_vars => TypeInv'
<1> SUFFICES ASSUME TypeInv, [Next]_vars PROVE TypeInv'
  OBVIOUS
<1>0. /\ NetBoxOK /\ IsNetBox(was) /\ ScalarsOK
      /\ \A w \in works : IsWork(w)
      /\ TablesOK /\ NamesAreUnique
  BY DEF TypeInv, NetBoxOK
<1>1. CASE Plan
  <2>1. ifs' = ifs /\ ips' = ips /\ at' = at /\ was' = was
    BY <1>1 DEF Plan, rest
  <2>2. /\ pc = "plan" /\ works = {}
        /\ script' = script /\ run' = run /\ edits' = edits /\ limits' = limits
        /\ (pc' = "failed" /\ works' = works) \/ (pc' = "do" /\ works' = ThePlan /\ ~Fails)
    BY <1>0, <1>1 DEF Plan, rest, ScalarsOK
  <2>3. \A w \in works' : IsWork(w)
    BY <1>0, <2>2, PlanIsTyped DEF ScalarsOK
  <2>4. ScalarsOK'
    BY <1>0, <2>2 DEF ScalarsOK
  <2> QED BY <1>0, <2>1, <2>3, <2>4, NetBoxUnchanged DEF TypeInv, IsWork
<1>2. ASSUME NEW w \in works, DoWork(w) PROVE TypeInv'
  <2>1. NetBoxOK'
    BY <1>0, <1>2, StaysNetBox DEF DoWork
  <2>2. /\ pc = "do" /\ pc' = pc /\ script' = script /\ run' = run /\ edits' = edits
        /\ was' = was /\ limits' = limits /\ works' \subseteq works
    BY <1>2 DEF DoWork, rest
  <2>3. ScalarsOK'
    BY <1>0, <2>2 DEF ScalarsOK
  <2> QED BY <1>0, <2>1, <2>2, <2>3 DEF TypeInv, IsWork
<1>3. CASE \/ \E w \in works : WorkFails(w)
           \/ Stop \/ Finish \/ RunAgain
  <2>1. ifs' = ifs /\ ips' = ips /\ at' = at /\ was' = was /\ works' \subseteq works
    BY <1>3 DEF WorkFails, Stop, Finish, RunAgain, rest
  <2>2. ScalarsOK'
    <3>1. CASE (\E w \in works : WorkFails(w)) \/ Stop \/ Finish
      BY <1>0, <3>1 DEF WorkFails, Stop, Finish, rest, ScalarsOK
    <3>2. CASE RunAgain
      BY <1>0, <3>2 DEF RunAgain, ScalarsOK
    <3> QED BY <1>3, <3>1, <3>2
  <2> QED BY <1>0, <2>1, <2>2, NetBoxUnchanged DEF TypeInv, IsWork
<1>4. CASE NextCommand
  <2>1. /\ ifs' = ifs /\ ips' = ips /\ at' = at /\ was' = netbox /\ works' = works
        /\ pc = "done" /\ pc' = "plan" /\ run' = 1 /\ edits' = edits /\ limits' = limits
        /\ script' = Tail(script) /\ Len(script) > 1
    BY <1>4 DEF NextCommand
  <2>2. IsNetBox(was)'
    BY <1>0, <2>1, NetBoxParts
  <2>3. script' \in Seq(Command) \ {<< >>}
    <3>1. script \in Seq(Command) /\ script # << >>
      BY <1>0 DEF ScalarsOK
    <3>2. Tail(script) \in Seq(Command) /\ Len(Tail(script)) = Len(script) - 1
      BY <3>1
    <3>3. Len(Tail(script)) > 0
      BY <2>1, <3>1, <3>2
    <3>4. \A s \in Seq(Command) : Len(s) > 0 => s # << >>
      OBVIOUS
    <3>5. Tail(script) # << >>
      BY <3>2, <3>3, <3>4
    <3> QED BY <2>1, <3>2, <3>5
  <2>4. ScalarsOK'
    BY <1>0, <2>1, <2>3 DEF ScalarsOK
  <2> QED BY <1>0, <2>1, <2>2, <2>4, NetBoxUnchanged DEF TypeInv
<1>5. ASSUME NEW i, NEW ip, SomeoneAssigns(ip, i) PROVE TypeInv'
  <2>1. NetBoxOK'
    BY <1>0, <1>5, AssignsStaysNetBox
  <2>2. works' = works /\ was' = was /\ ScalarsOK'
    BY <1>0, <1>5 DEF SomeoneAssigns, ScalarsOK
  <2> QED BY <1>0, <2>1, <2>2 DEF TypeInv, IsWork
<1>6. ASSUME NEW i, SomeoneDeletes(i) PROVE TypeInv'
  <2>1. NetBoxOK'
    BY <1>0, <1>6, DeletesStaysNetBox
  <2>2. works' = works /\ was' = was /\ ScalarsOK'
    BY <1>0, <1>6 DEF SomeoneDeletes, ScalarsOK
  <2> QED BY <1>0, <2>1, <2>2 DEF TypeInv, IsWork
<1>7. CASE UNCHANGED vars
  <2>1. /\ ifs' = ifs /\ ips' = ips /\ at' = at /\ was' = was /\ works' = works
        /\ pc' = pc /\ run' = run /\ edits' = edits /\ limits' = limits /\ script' = script
    BY <1>7 DEF vars
  <2>2. ScalarsOK'
    BY <1>0, <2>1 DEF ScalarsOK
  <2> QED BY <1>0, <2>1, <2>2, NetBoxUnchanged DEF TypeInv, IsWork
<1> QED BY <1>1, <1>2, <1>3, <1>4, <1>5, <1>6, <1>7 DEF Next

LEMMA TypeInvariance == Spec => []TypeInv
  BY InitTypeInv, NextTypeInv, PTL DEF Spec

\* Wherever runs stop, and with others who assign addresses that are on nothing
\* and delete empty subinterfaces: NetBox stays a NetBox, every name is taken once,
\* no assignment dangles and an address is twice only as anycast.
THEOREM TypeCorrect == Spec => []TypeOK
  BY TypeInvariance, TypeInvImplies, PTL

-----------------------------------------------------------------------------
\* No address is left loose: where the addresses are after a work.

\* No id is handed out twice, and an interface keeps its port and number.
InterfacesLast ==
    \A i \in Ids : ifs[i] # None =>
        /\ ifs'[i] # None
        /\ i \in InUse(ifs)' =>
               i \in InUse(ifs) /\ ifs'[i].port = ifs[i].port /\ ifs'[i].sub = ifs[i].sub

StaysOn(ip) ==
    /\ ip \in InUse(ips)' <=> ip \in InUse(ips)
    /\ ip \in InUse(ips) => ips'[ip].on = ips[ip].on

\* Work t takes the address off the interface that it is on.
Frees(t, ip) == t.op \in {"DeleteIPAddress", "ReassignIPAddress"} /\ t.id = ip

Touches(w, ip) ==
    \/ w.op = "DeleteIPAddress" /\ w.id = ip /\ ip \notin InUse(ips)'
    \/ /\ w.op = "ReassignIPAddress" /\ w.id = ip /\ ip \in InUse(ips)'
       /\ ips'[ip].on \in Named(w.port, w.sub)
    \/ /\ w.op = "DeleteInterface" /\ ip \in InUse(ips) /\ ips[ip].on = w.id
       /\ ips'[ip].on = None
    \/ w.op = "AssignIPAddress" /\ ips[ip] = None

LEMMA WorkTouches ==
  ASSUME NetBoxOK, NEW w, IsWork(w), Resolves(w), Accepts(w), Execute(w)
  PROVE  /\ InterfacesLast
         /\ \A ip \in Ips : (StaysOn(ip) /\ ~Frees(w, ip)) \/ Touches(w, ip)
<1>0. TablesOK
  BY DEF NetBoxOK
<1>a. InUse(ifs) = {i \in Ids : ifs[i] \in Interface} /\ InUse(ips) = {ip \in Ips : ips[ip] \in Address}
  BY <1>0, InterfacesInUse, AddressesInUse DEF TablesOK
<1>s. ifs' = ifs => InterfacesLast
  BY DEF InterfacesLast
<1>t. ips' = ips => \A ip : StaysOn(ip)
  BY DEF StaysOn, InUse, Exists
<1> DEFINE Goal == InterfacesLast /\ \A ip \in Ips : (StaysOn(ip) /\ ~Frees(w, ip)) \/ Touches(w, ip)
<1>1. CASE CableMoves(w)
  <2>1. ifs' = ifs /\ ips' = ips /\ \A ip : ~Frees(w, ip)
    BY <1>1 DEF CableMoves, Frees
  <2> QED BY <1>s, <1>t, <2>1
<1>2. ASSUME NEW i \in Ids, Creates(w, i) PROVE Goal
  <2>1. /\ InUse(ifs)' = InUse(ifs) \cup {i} /\ ips' = ips
        /\ \A j \in InUse(ifs) : ifs'[j] = ifs[j]
    BY <1>0, <1>2, AfterCreates
  <2>2. ifs[i] = None /\ (\A ip : ~Frees(w, ip)) /\ \A j \in Ids : j # i => ifs'[j] = ifs[j]
    BY <1>0, <1>2 DEF Creates, Frees, TablesOK
  <2>3. InterfacesLast
    BY <2>1, <2>2 DEF InterfacesLast
  <2> QED BY <1>t, <2>1, <2>2, <2>3
<1>3. CASE Modifies(w)
  <2>1. /\ SameInterfaces /\ ips' = ips
        /\ \A i \in InUse(ifs) : i # w.id => ifs'[i] = ifs[i]
    BY <1>0, <1>3, AfterModifies
  <2>2. w.id \in InUse(ifs) /\ (\A ip : ~Frees(w, ip)) /\ \A j \in Ids : j # w.id => ifs'[j] = ifs[j]
    BY <1>0, <1>3 DEF Modifies, Frees, TablesOK
  <2>3. \A i \in InUse(ifs)' : ifs'[i] # None
    BY DEF InUse, Exists
  <2>4. InterfacesLast
    BY <2>1, <2>2, <2>3 DEF InterfacesLast, SameInterfaces
  <2> QED BY <1>t, <2>1, <2>2, <2>4
<1>4. CASE Deletes(w)
  <2>1. /\ InUse(ifs)' = InUse(ifs) \ {w.id} /\ ifs'[w.id] = Gone
        /\ \A i \in Ids : i # w.id => ifs'[i] = ifs[i]
        /\ InUse(ips)' = InUse(ips)
        /\ \A ip \in InUse(ips) : ips'[ip].on = IF ips[ip].on = w.id THEN None ELSE ips[ip].on
    BY <1>0, <1>4, AfterDeletes
  <2>2. w.op = "DeleteInterface" /\ \A ip : ~Frees(w, ip)
    BY <1>4 DEF Deletes, Frees
  <2>3. InterfacesLast
    BY <2>1, NoneAssumption DEF InterfacesLast
  <2>4. ASSUME NEW ip \in Ips PROVE StaysOn(ip) \/ Touches(w, ip)
    BY <2>1, <2>2 DEF StaysOn, Touches
  <2> QED BY <2>2, <2>3, <2>4
<1>5. CASE DeletesIp(w)
  <2>1. /\ ifs' = ifs /\ InUse(ips)' = InUse(ips) \ {w.id}
        /\ \A ip \in Ips : ip # w.id => ips'[ip] = ips[ip]
    BY <1>0, <1>5, AfterDeletesIp
  <2>2. w.op = "DeleteIPAddress"
    BY <1>5 DEF DeletesIp
  <2> QED BY <1>s, <2>1, <2>2 DEF StaysOn, Touches, Frees
<1>6. CASE MakesAnycast(w)
  <2>1. /\ ifs' = ifs /\ InUse(ips)' = InUse(ips)
        /\ \A ip \in InUse(ips) : ips'[ip].on = ips[ip].on
    BY <1>0, <1>6, AfterMakesAnycast
  <2>2. \A ip : ~Frees(w, ip)
    BY <1>6 DEF MakesAnycast, Frees
  <2> QED BY <1>s, <2>1, <2>2 DEF StaysOn
<1>7. CASE Reassigns(w)
  <2>1. /\ ifs' = ifs /\ InUse(ips)' = InUse(ips)
        /\ \A ip \in InUse(ips) : ip # w.id => ips'[ip] = ips[ip]
        /\ ips'[w.id].on = IdOf(w.port, w.sub)
        /\ IdOf(w.port, w.sub) \in Named(w.port, w.sub)
    BY <1>0, <1>7, AfterReassigns
  <2>2. w.op = "ReassignIPAddress" /\ w.id \in InUse(ips)
    BY <1>7 DEF Reassigns
  <2> QED BY <1>s, <2>1, <2>2 DEF StaysOn, Touches, Frees
<1>8. ASSUME NEW new \in Ips, Assigns(w, new) PROVE Goal
  <2>1. /\ ifs' = ifs /\ InUse(ips)' = InUse(ips) \cup {new}
        /\ \A other \in InUse(ips) : ips'[other] = ips[other]
    BY <1>0, <1>8, AfterAssigns
  <2>2. w.op = "AssignIPAddress" /\ ips[new] = None /\ \A ip : ~Frees(w, ip)
    BY <1>8 DEF Assigns, Frees
  <2>3. ASSUME NEW ip \in Ips PROVE StaysOn(ip) \/ Touches(w, ip)
    BY <2>1, <2>2 DEF StaysOn, Touches
  <2> QED BY <1>s, <2>1, <2>2, <2>3
<1> QED
  BY <1>0, <1>1, <1>2, <1>3, <1>4, <1>5, <1>6, <1>7, <1>8, WorkDone

\* Where an address is.
LEMMA PlaceIs ==
  ASSUME NEW ip
  PROVE  /\ ip \notin InUse(ips) => Place(ip) = Gone
         /\ ip \in InUse(ips) /\ ips[ip].on = None => Place(ip) = None
         /\ ip \in InUse(ips) /\ ips[ip].on # None =>
                Place(ip) = <<ifs[ips[ip].on].port, ifs[ips[ip].on].sub>>
  BY ExistsInUse DEF Place, PlaceIn, netbox

LEMMA WasSomewhere ==
  ASSUME NEW ip \in Placed
  PROVE  /\ ip \in Ips /\ Was(ip) # Gone /\ Was(ip) # None
         /\ Was(ip) = <<Was(ip)[1], Was(ip)[2]>>
  BY DEF Placed, Somewhere, Was, PlaceIn

\* An address that stays on its interface stays in its place.
LEMMA PlaceStays ==
  ASSUME NetBoxOK, NetBoxOK', InterfacesLast, NEW ip, StaysOn(ip)
  PROVE  Place(ip)' = Place(ip)
<1>1. CASE ip \notin InUse(ips)
  <2>1. ip \notin InUse(ips)'
    BY <1>1 DEF StaysOn
  <2>2. Place(ip)' = Gone
    BY <2>1, ExistsInUse DEF Place, PlaceIn, netbox, InUse, Exists
  <2> QED BY <1>1, <2>2, PlaceIs
<1>2. CASE ip \in InUse(ips)
  <2>1. ip \in InUse(ips)' /\ ips'[ip].on = ips[ip].on
    BY <1>2 DEF StaysOn
  <2>2. Place(ip)' = IF ips[ip].on = None THEN None
                     ELSE <<ifs'[ips[ip].on].port, ifs'[ips[ip].on].sub>>
    BY <2>1 DEF Place, PlaceIn, netbox, InUse, Exists
  <2>3. ASSUME ips[ip].on # None
        PROVE  /\ ifs'[ips[ip].on].port = ifs[ips[ip].on].port
               /\ ifs'[ips[ip].on].sub = ifs[ips[ip].on].sub
    <3>1. ips[ip].on \in InUse(ifs) /\ ips[ip].on \in InUse(ifs)'
      BY <1>2, <2>1, <2>3 DEF NetBoxOK, NothingDangles
    <3>2. ips[ip].on \in Ids /\ ifs[ips[ip].on] # None
      BY <3>1, InterfacesInUse, NoneAssumption DEF NetBoxOK, TablesOK
    <3> QED BY <3>1, <3>2 DEF InterfacesLast
  <2> QED BY <1>2, <2>2, <2>3, PlaceIs
<1> QED BY <1>1, <1>2

-----------------------------------------------------------------------------
\* No address is left loose: the works.

Removable(w, S) ==
    /\ w.id \in Ids /\ ifs[w.id] # None
    /\ \/ Zapping
       \/ /\ Migrating /\ cmd.src # cmd.tgt
          /\ w.id \in InUse(ifs) => ifs[w.id].port = cmd.src
    /\ \A ip \in Placed :
           ip \in InUse(ips) /\ ips[ip].on = w.id =>
               \E t \in S : Frees(t, ip) /\ Sooner(t, w)

\* What a work of the list S may do to the addresses that were on an interface: an
\* interface is deleted after each address on it has been moved or deleted.
Fits(w, S) ==
    /\ w.op = "AssignIPAddress" => Cloning
    /\ w.op = "DeleteIPAddress" =>
           Zapping /\ (w.id \in Placed => Was(w.id)[1] \in Range(cmd.targets))
    /\ w.op = "ReassignIPAddress" =>
           /\ Migrating /\ w.port = cmd.tgt
           /\ w.id \in Placed => Was(w.id) = <<cmd.src, w.sub>>
    /\ w.op = "DeleteInterface" => Removable(w, S)

LooseInv == NoAddressLeftLoose /\ (pc = "do" => \A w \in works : Fits(w, works))

LEMMA OneCommand ==
  /\ ~(Zapping /\ (Migrating \/ Cloning \/ Setting))
  /\ ~(Migrating /\ (Cloning \/ Setting)) /\ ~(Cloning /\ Setting)
  BY DEF Zapping, Migrating, Cloning, Setting

LEMMA ZapFits ==
  ASSUME NetBoxOK, NoAddressLeftLoose, Zapping, cmd.targets \in Seq(Ports),
         ~ZapFails(cmd.targets),
         NEW w, w \in ZapPlan(cmd.targets)
  PROVE  Fits(w, ZapPlan(cmd.targets))
<1>0. TablesOK /\ NamesAreUnique /\ NothingDangles
  BY DEF NetBoxOK
<1>1. PICK k \in DOMAIN cmd.targets, i \in InUse(ifs) :
         ifs[i].port = cmd.targets[k] /\ ZapWork(w, k, i)
  BY <1>0, ZapPlanned
<1>2. i \in Ids /\ i # None /\ ifs[i] \in Interface /\ ifs[i] # None
  BY <1>0, InterfacesInUse, NoneAssumption DEF TablesOK
<1>3. ASSUME NEW ip \in IpsOn(i), ip \in Placed
      PROVE  Was(ip)[1] \in Range(cmd.targets)
  <2>1. ip \in InUse(ips) /\ ips[ip].on = i
    BY DEF IpsOn
  <2>2. Place(ip) = <<ifs[i].port, ifs[i].sub>>
    BY <1>2, <2>1, PlaceIs
  <2>3. Place(ip) = Was(ip) \/ Was(ip)[1] \in Range(cmd.targets)
    BY <1>3, OneCommand DEF NoAddressLeftLoose
  <2>4. ifs[i].port \in Range(cmd.targets)
    BY <1>1 DEF Range
  <2> QED BY <2>2, <2>3, <2>4
<1>4. CASE \E ip \in IpsOn(i) : w.op = "DeleteIPAddress" /\ w.id = ip
  BY <1>3, <1>4 DEF Fits
<1>5. CASE w = DeleteInterface(<<k, 1, ifs[i].sub, 2>>, i) /\ ifs[i].sub # 0
  <2>1. w.op = "DeleteInterface" /\ w.id = i /\ w.nr = <<k, 1, ifs[i].sub, 2>>
    BY <1>5 DEF DeleteInterface
  <2>2. ASSUME NEW ip, ip \in InUse(ips), ips[ip].on = i
        PROVE  \E t \in ZapPlan(cmd.targets) : Frees(t, ip) /\ Sooner(t, w)
    <3> DEFINE t == DeleteIPAddress(<<k, 1, ifs[i].sub, 1, ip>>, ip)
    <3>1. ip \in IpsOn(i)
      BY <2>2 DEF IpsOn
    <3>2. ZapWork(t, k, i)
      BY <1>5, <3>1 DEF ZapWork
    <3>3. t \in ZapPlan(cmd.targets)
      BY <1>0, <1>1, <3>2, ZapPlanned
    <3>4. Frees(t, ip) /\ t.nr = <<k, 1, ifs[i].sub, 1, ip>>
      BY DEF DeleteIPAddress, Frees
    <3>5. Sooner(t, w)
      <4>1. 4 \in DOMAIN t.nr \cap DOMAIN w.nr
        BY <2>1, <3>4
      <4>2. t.nr[4] < w.nr[4] /\ \A m \in 1 .. (4 - 1) : t.nr[m] = w.nr[m]
        BY <2>1, <3>4
      <4> QED BY <4>1, <4>2 DEF Sooner
    <3> QED BY <3>3, <3>4, <3>5
  <2>3. Removable(w, ZapPlan(cmd.targets))
    BY <1>2, <2>1, <2>2 DEF Removable
  <2> QED BY <2>1, <2>3 DEF Fits
<1>6. CASE w.op = "ModifyInterface"
  BY <1>6 DEF Fits
<1> QED
  BY <1>1, <1>4, <1>5, <1>6 DEF ZapWork, DeleteIPAddress, ModifyInterface

LEMMA MigrateFits ==
  ASSUME NetBoxOK, NoAddressLeftLoose, Migrating, ~MigrateFails(cmd.src, cmd.tgt),
         NEW w, w \in MigratePlan(cmd.src, cmd.tgt)
  PROVE  Fits(w, MigratePlan(cmd.src, cmd.tgt))
<1>0. TablesOK /\ NamesAreUnique /\ NothingDangles
  BY DEF NetBoxOK
<1>1. PICK i \in InUse(ifs) : ifs[i].port = cmd.src /\ MigrateWork(w, cmd.src, cmd.tgt, i)
  BY <1>0, MigratePlanned
<1>2. i \in Ids /\ i # None /\ ifs[i] \in Interface /\ ifs[i] # None
  BY <1>0, InterfacesInUse, NoneAssumption DEF TablesOK
<1>3. ASSUME NEW ip \in IpsOn(i), ip \in Placed
      PROVE  Was(ip) = <<cmd.src, ifs[i].sub>>
  <2>1. ip \in InUse(ips) /\ ips[ip].on = i
    BY DEF IpsOn
  <2>2. Place(ip) = <<cmd.src, ifs[i].sub>>
    BY <1>1, <1>2, <2>1, PlaceIs
  <2>3. \/ Place(ip) = Was(ip)
        \/ Was(ip)[1] = cmd.src /\ Place(ip) = <<cmd.tgt, Was(ip)[2]>>
    BY <1>3, OneCommand DEF NoAddressLeftLoose
  <2>4. Was(ip) = <<Was(ip)[1], Was(ip)[2]>>
    BY <1>3, WasSomewhere
  <2>5. CASE Was(ip)[1] = cmd.src /\ Place(ip) = <<cmd.tgt, Was(ip)[2]>>
    <3>1. Was(ip)[2] = ifs[i].sub
      BY <2>2, <2>5
    <3> QED BY <2>4, <2>5, <3>1
  <2> QED BY <2>2, <2>3, <2>5
<1>4. CASE \E ip \in IpsOn(i) :
              w = ReassignIPAddress(<<2, ifs[i].sub, 2, ip>>, ip, cmd.tgt, ifs[i].sub)
  <2>1. PICK ip \in IpsOn(i) :
           w = ReassignIPAddress(<<2, ifs[i].sub, 2, ip>>, ip, cmd.tgt, ifs[i].sub)
    BY <1>4
  <2>2. /\ w.op = "ReassignIPAddress" /\ w.id = ip /\ w.port = cmd.tgt /\ w.sub = ifs[i].sub
    BY <2>1 DEF ReassignIPAddress
  <2> QED BY <1>3, <2>2 DEF Fits
<1>5. CASE w = DeleteInterface(<<2, ifs[i].sub, 3>>, i) /\ ifs[i].sub # 0
  <2>1. w.op = "DeleteInterface" /\ w.id = i /\ w.nr = <<2, ifs[i].sub, 3>>
    BY <1>5 DEF DeleteInterface
  <2>2. ASSUME NEW ip, ip \in InUse(ips), ips[ip].on = i
        PROVE  \E t \in MigratePlan(cmd.src, cmd.tgt) : Frees(t, ip) /\ Sooner(t, w)
    <3> DEFINE t == ReassignIPAddress(<<2, ifs[i].sub, 2, ip>>, ip, cmd.tgt, ifs[i].sub)
    <3>1. ip \in IpsOn(i)
      BY <2>2 DEF IpsOn
    <3>2. MigrateWork(t, cmd.src, cmd.tgt, i)
      BY <3>1 DEF MigrateWork
    <3>3. t \in MigratePlan(cmd.src, cmd.tgt)
      BY <1>0, <1>1, <3>2, MigratePlanned
    <3>4. Frees(t, ip) /\ t.nr = <<2, ifs[i].sub, 2, ip>>
      BY DEF ReassignIPAddress, Frees
    <3>5. Sooner(t, w)
      <4>1. 3 \in DOMAIN t.nr \cap DOMAIN w.nr
        BY <2>1, <3>4
      <4>2. t.nr[3] < w.nr[3] /\ \A m \in 1 .. (3 - 1) : t.nr[m] = w.nr[m]
        BY <2>1, <3>4
      <4> QED BY <4>1, <4>2 DEF Sooner
    <3> QED BY <3>3, <3>4, <3>5
  <2>3. cmd.src # cmd.tgt
    <3>1. TreeIsSound(cmd.src) /\ SubsOf(cmd.tgt) = {}
      BY DEF MigrateFails
    <3>2. i \in ByParent(cmd.src)
      BY <1>0, <1>1, <1>5, <3>1, SoundTree
    <3> QED BY <3>1, <3>2 DEF SubsOf
  <2>4. Removable(w, MigratePlan(cmd.src, cmd.tgt))
    BY <1>1, <1>2, <2>1, <2>2, <2>3 DEF Removable
  <2> QED BY <2>1, <2>4 DEF Fits
<1>6. CASE w.op \in {"ModifyCable", "ModifyInterface", "CreateInterface"}
  BY <1>6 DEF Fits
<1> QED
  BY <1>1, <1>4, <1>5, <1>6 DEF MigrateWork, ModifyCable, ModifyInterface, CreateInterface

LEMMA PlanFits ==
  ASSUME NetBoxOK, NoAddressLeftLoose, script \in Seq(Command) \ {<< >>}, ~Fails,
         NEW w, w \in ThePlan
  PROVE  Fits(w, ThePlan)
<1>0. /\ Zapping \/ Migrating \/ Cloning \/ Setting
      /\ Zapping \/ Setting => cmd.targets \in Seq(Ports)
      /\ TablesOK /\ NamesAreUnique
  BY CommandIs DEF NetBoxOK
<1>1. CASE Zapping
  <2>1. ~ZapFails(cmd.targets) /\ ThePlan = ZapPlan(cmd.targets)
    BY <1>1 DEF Fails, ThePlan, Zapping, Migrating, Cloning, Setting
  <2> QED BY <1>0, <1>1, <2>1, ZapFits
<1>2. CASE Migrating
  <2>1. ~MigrateFails(cmd.src, cmd.tgt) /\ ThePlan = MigratePlan(cmd.src, cmd.tgt)
    BY <1>2 DEF Fails, ThePlan, Zapping, Migrating, Cloning, Setting
  <2> QED BY <1>2, <2>1, MigrateFits
<1>3. CASE Cloning
  <2>1. ~CloneFails(cmd.src, cmd.tgt) /\ w \in ClonePlan(cmd.src, cmd.tgt)
    BY <1>3 DEF Fails, ThePlan, Zapping, Migrating, Cloning, Setting
  <2>2. PICK i \in InUse(ifs) : CloneWork(w, cmd.tgt, i)
    BY <1>0, <2>1, ClonePlanned
  <2>3. w.op \in {"ModifyIPAddress", "AssignIPAddress", "CreateInterface", "ModifyInterface"}
    BY <2>2 DEF CloneWork, MakeAnycast, AssignIPAddress, CreateInterface, ModifyInterface
  <2> QED BY <1>3, <2>3 DEF Fits
<1>4. CASE Setting
  <2>1. ~SetTypeFails(cmd.targets) /\ w \in SetTypePlan(cmd.targets, cmd.kind)
    BY <1>4 DEF Fails, ThePlan, Zapping, Migrating, Cloning, Setting
  <2>2. PICK k \in DOMAIN cmd.targets, i \in InUse(ifs) : SetTypeWork(w, k, i, cmd.kind)
    BY <1>0, <2>1, SetTypePlanned
  <2>3. w.op = "ModifyInterface"
    BY <2>2 DEF SetTypeWork, ModifyInterface
  <2> QED BY <2>3 DEF Fits
<1> QED BY <1>0, <1>1, <1>2, <1>3, <1>4

-----------------------------------------------------------------------------
\* No address is left loose: the steps.

LEMMA SameCommand ==
  ASSUME script' = script, was' = was
  PROVE  /\ Placed' = Placed /\ \A ip : Was(ip)' = Was(ip)
         /\ cmd' = cmd
         /\ Zapping' <=> Zapping
         /\ Migrating' <=> Migrating
         /\ Cloning' <=> Cloning
<1>1. \A ip : Was(ip)' = Was(ip)
  BY DEF Was, PlaceIn
<1>2. cmd' = cmd
  BY DEF cmd
<1> QED BY <1>1, <1>2 DEF Placed, Zapping, Migrating, Cloning

\* The works of S still fit after a step that loses none that is waited for.
LEMMA FitsStays ==
  ASSUME script' = script, was' = was, InterfacesLast,
         NEW S, NEW u, Fits(u, S),
         u.op = "DeleteInterface" =>
             \A ip \in Placed : ip \in InUse(ips)' /\ ips'[ip].on = u.id =>
                 /\ ip \in InUse(ips) /\ ips[ip].on = u.id
                 /\ \A t \in S : Frees(t, ip) => t \in works'
  PROVE  Fits(u, works)'
<1>1. /\ Placed' = Placed /\ \A ip : Was(ip)' = Was(ip)
      /\ cmd' = cmd
      /\ Zapping' <=> Zapping
      /\ Migrating' <=> Migrating
      /\ Cloning' <=> Cloning
  BY SameCommand
<1>2. CASE u.op = "DeleteInterface"
  <2>1. Removable(u, S)
    BY <1>2 DEF Fits
  <2>2. u.id \in Ids /\ ifs'[u.id] # None
    BY <2>1 DEF Removable, InterfacesLast
  <2>3. \/ Zapping'
        \/ /\ Migrating' /\ cmd'.src # cmd'.tgt
           /\ u.id \in InUse(ifs)' => ifs'[u.id].port = cmd'.src
    BY <1>1, <2>1 DEF Removable, InterfacesLast
  <2>4. ASSUME NEW ip \in Placed, ip \in InUse(ips)', ips'[ip].on = u.id
        PROVE  \E t \in works' : Frees(t, ip) /\ Sooner(t, u)
    BY <1>2, <2>1, <2>4 DEF Removable
  <2>5. Removable(u, works)'
    BY <1>1, <2>2, <2>3, <2>4 DEF Removable, Frees, Sooner
  <2> QED BY <1>2, <2>5 DEF Fits
<1>3. CASE u.op # "DeleteInterface"
  BY <1>1, <1>3 DEF Fits
<1> QED BY <1>2, <1>3

LEMMA InPlace ==
  ASSUME script' = script, was' = was, NoAddressLeftLoose,
         \A ip \in Placed : Place(ip)' = Place(ip)
  PROVE  NoAddressLeftLoose'
<1>1. /\ Placed' = Placed /\ \A ip : Was(ip)' = Was(ip)
      /\ cmd' = cmd
      /\ Zapping' <=> Zapping
      /\ Migrating' <=> Migrating
  BY SameCommand
<1> QED BY <1>1 DEF NoAddressLeftLoose

\* Where the addresses are after a work that is next.
LEMMA WorkLeavesNoneLoose ==
  ASSUME NetBoxOK, NetBoxOK', NoAddressLeftLoose, \A u \in works : Fits(u, works),
         NEW w \in works, IsWork(w), DoWork(w)
  PROVE  NoAddressLeftLoose' /\ \A u \in works' : Fits(u, works)'
<1>1. /\ script' = script /\ was' = was /\ works' = works \ {w}
      /\ \A v \in works : ~Sooner(v, w)
      /\ Resolves(w) /\ Accepts(w) /\ Execute(w)
  BY DEF DoWork, rest, IsNext
<1>2. /\ InterfacesLast
      /\ \A ip \in Ips : (StaysOn(ip) /\ ~Frees(w, ip)) \/ Touches(w, ip)
  BY <1>1, WorkTouches
<1>3. \A ip \in Placed : ip \in Ips /\ Was(ip) # Gone /\ Was(ip) = <<Was(ip)[1], Was(ip)[2]>>
  BY WasSomewhere
<1>4. Fits(w, works)
  OBVIOUS
<1>5. \A ip \in Placed : w.op = "AssignIPAddress" => ips[ip] # None
  <2> SUFFICES ASSUME NEW ip \in Placed, w.op = "AssignIPAddress", ips[ip] = None
               PROVE  FALSE
    OBVIOUS
  <2>1. Place(ip) = Was(ip)
    BY <1>4, OneCommand DEF Fits, NoAddressLeftLoose
  <2>2. Place(ip) = Gone
    BY PlaceIs DEF InUse, Exists
  <2> QED BY <1>3, <2>1, <2>2
<1>6. \A ip \in Placed : w.op = "DeleteInterface" =>
          ~(ip \in InUse(ips) /\ ips[ip].on = w.id)
  BY <1>1, <1>4 DEF Fits, Removable
<1>7. ASSUME NEW ip \in Placed
      PROVE  \/ StaysOn(ip) /\ ~Frees(w, ip)
             \/ w.op = "DeleteIPAddress" /\ w.id = ip /\ ip \notin InUse(ips)'
             \/ /\ w.op = "ReassignIPAddress" /\ w.id = ip /\ ip \in InUse(ips)'
                /\ ips'[ip].on \in Named(w.port, w.sub)
  BY <1>2, <1>3, <1>5, <1>6 DEF Touches
<1>8. NoAddressLeftLoose'
  <2>1. /\ Placed' = Placed /\ \A ip : Was(ip)' = Was(ip)
        /\ cmd' = cmd
        /\ Zapping' <=> Zapping
        /\ Migrating' <=> Migrating
    BY <1>1, SameCommand
  <2>2. ASSUME NEW ip \in Placed
        PROVE  \/ Place(ip)' = Was(ip)
               \/ Zapping /\ Was(ip)[1] \in Range(cmd.targets) /\ Place(ip)' = Gone
               \/ /\ Migrating /\ Was(ip)[1] = cmd.src
                  /\ Place(ip)' = <<cmd.tgt, Was(ip)[2]>>
    <3>1. CASE StaysOn(ip)
      <4>1. Place(ip)' = Place(ip)
        BY <1>2, <3>1, PlaceStays
      <4> QED BY <4>1 DEF NoAddressLeftLoose
    <3>2. CASE w.op = "DeleteIPAddress" /\ w.id = ip /\ ip \notin InUse(ips)'
      <4>1. Place(ip)' = Gone
        BY <3>2 DEF Place, PlaceIn, netbox, InUse, Exists
      <4>2. Zapping /\ Was(ip)[1] \in Range(cmd.targets)
        BY <1>4, <3>2 DEF Fits
      <4> QED BY <4>1, <4>2
    <3>3. CASE /\ w.op = "ReassignIPAddress" /\ w.id = ip /\ ip \in InUse(ips)'
               /\ ips'[ip].on \in Named(w.port, w.sub)
      <4>1. /\ Migrating /\ w.port = cmd.tgt /\ Was(ip) = <<cmd.src, w.sub>>
        BY <1>4, <3>3 DEF Fits
      <4> DEFINE j == ips'[ip].on
      <4>2. /\ j \in InUse(ifs) /\ ifs[j].port = cmd.tgt /\ ifs[j].sub = w.sub
        BY <3>3, <4>1 DEF Named
      <4>3. /\ j \in Ids /\ j # None /\ ifs[j] # None
        BY <4>2, InterfacesInUse, NoneAssumption DEF NetBoxOK, TablesOK
      <4>4. j \in InUse(ifs)'
        BY <3>3, <4>3 DEF NetBoxOK, NothingDangles
      <4>5. ifs'[j].port = cmd.tgt /\ ifs'[j].sub = w.sub
        BY <1>2, <4>2, <4>3, <4>4 DEF InterfacesLast
      <4>6. Place(ip)' = <<ifs'[j].port, ifs'[j].sub>>
        BY <3>3, <4>3 DEF Place, PlaceIn, netbox, InUse, Exists
      <4>7. Was(ip)[1] = cmd.src /\ Was(ip)[2] = w.sub
        BY <4>1
      <4> QED BY <4>1, <4>5, <4>6, <4>7
    <3> QED BY <1>7, <3>1, <3>2, <3>3
  <2> QED BY <2>1, <2>2 DEF NoAddressLeftLoose
<1>9. ASSUME NEW u \in works' PROVE Fits(u, works)'
  <2>1. u \in works /\ Fits(u, works)
    BY <1>1
  <2>2. ASSUME u.op = "DeleteInterface",
               NEW ip \in Placed, ip \in InUse(ips)', ips'[ip].on = u.id
        PROVE  /\ ip \in InUse(ips) /\ ips[ip].on = u.id
               /\ \A t \in works : Frees(t, ip) => t \in works'
    <3>1. Removable(u, works)
      BY <2>1, <2>2 DEF Fits
    <3>2. ~(w.op = "ReassignIPAddress" /\ w.id = ip /\ ips'[ip].on \in Named(w.port, w.sub))
      <4> SUFFICES ASSUME w.op = "ReassignIPAddress", w.id = ip,
                          ips'[ip].on \in Named(w.port, w.sub)
                   PROVE  FALSE
        OBVIOUS
      <4>1. Migrating /\ w.port = cmd.tgt
        BY <1>4 DEF Fits
      <4>2. u.id \in InUse(ifs) /\ ifs[u.id].port = cmd.tgt
        BY <2>2, <4>1 DEF Named
      <4>3. cmd.src # cmd.tgt /\ ifs[u.id].port = cmd.src
        BY <3>1, <4>1, <4>2, OneCommand DEF Removable
      <4> QED BY <4>2, <4>3
    <3>3. StaysOn(ip) /\ ~Frees(w, ip)
      BY <1>7, <2>2, <3>2
    <3> QED BY <1>1, <2>2, <3>3 DEF StaysOn
  <2> QED BY <1>1, <1>2, <2>1, <2>2, FitsStays
<1> QED BY <1>8, <1>9

LEMMA InitLooseInv == Init => LooseInv
<1> SUFFICES ASSUME Init PROVE LooseInv
  OBVIOUS
<1>1. \A ip : Place(ip) = Was(ip)
  BY DEF Init, Place, Was
<1> QED BY <1>1 DEF LooseInv, NoAddressLeftLoose, Init

LEMMA NextLooseInv == TypeInv /\ TypeInv' /\ LooseInv /\ [Next]_vars => LooseInv'
<1> SUFFICES ASSUME TypeInv, TypeInv', LooseInv, [Next]_vars PROVE LooseInv'
  OBVIOUS
<1>0. /\ NetBoxOK /\ NetBoxOK' /\ ScalarsOK
      /\ \A w \in works : IsWork(w)
      /\ NoAddressLeftLoose
      /\ pc = "do" => \A w \in works : Fits(w, works)
  BY DEF TypeInv, LooseInv
<1>s. ifs' = ifs => InterfacesLast
  BY DEF InterfacesLast
<1>t. ips' = ips => \A ip : StaysOn(ip)
  BY DEF StaysOn, InUse, Exists
<1>1. CASE Plan
  <2>1. /\ ifs' = ifs /\ ips' = ips /\ was' = was /\ script' = script
        /\ pc' = "do" => ~Fails /\ works' = ThePlan
    BY <1>1 DEF Plan, rest
  <2>2. NoAddressLeftLoose'
    BY <1>0, <1>s, <1>t, <2>1, PlaceStays, InPlace
  <2>3. ASSUME pc' = "do", NEW u \in works' PROVE Fits(u, works)'
    <3>1. Fits(u, ThePlan)
      BY <1>0, <2>1, <2>3, PlanFits DEF ScalarsOK
    <3>2. \A ip \in InUse(ips)' : ip \in InUse(ips) /\ ips'[ip] = ips[ip]
      BY <2>1 DEF InUse, Exists
    <3> QED BY <1>s, <2>1, <2>3, <3>1, <3>2, FitsStays
  <2> QED BY <2>2, <2>3 DEF LooseInv
<1>2. ASSUME NEW w \in works, DoWork(w) PROVE LooseInv'
  <2>1. pc = "do"
    BY <1>2 DEF DoWork
  <2> QED BY <1>0, <1>2, <2>1, WorkLeavesNoneLoose DEF LooseInv
<1>3. CASE \/ \E w \in works : WorkFails(w)
           \/ Stop \/ Finish \/ RunAgain
  <2>1. /\ ifs' = ifs /\ ips' = ips /\ was' = was /\ script' = script /\ pc' # "do"
    BY <1>3 DEF WorkFails, Stop, Finish, RunAgain, rest
  <2>2. NoAddressLeftLoose'
    BY <1>0, <1>s, <1>t, <2>1, PlaceStays, InPlace
  <2> QED BY <2>1, <2>2 DEF LooseInv
<1>4. CASE NextCommand
  <2>1. ifs' = ifs /\ ips' = ips /\ at' = at /\ was' = netbox /\ pc' = "plan"
    BY <1>4 DEF NextCommand
  <2>2. \A ip : Place(ip)' = Was(ip)'
    BY <2>1 DEF Place, Was, PlaceIn, netbox
  <2> QED BY <2>1, <2>2 DEF LooseInv, NoAddressLeftLoose
<1>5. ASSUME NEW i, NEW new, SomeoneAssigns(new, i) PROVE LooseInv'
  <2>1. /\ pc = "do" /\ pc' = pc /\ was' = was /\ script' = script /\ works' = works
        /\ ifs' = ifs /\ at' = at
        /\ new \in InUse(ips) /\ ips[new].on = None /\ was.ips[new] = ips[new]
        /\ i \in InUse(ifs) /\ ips' = [ips EXCEPT ![new].on = i]
    BY <1>5 DEF SomeoneAssigns
  <2>2. new \notin Placed
    <3>1. Was(new) \in {None, Gone}
      BY <2>1 DEF Was, PlaceIn
    <3> QED BY <3>1 DEF Placed, Somewhere
  <2>3. /\ InUse(ips)' = InUse(ips)
        /\ \A other \in InUse(ips) : other # new => ips'[other] = ips[other]
    BY <1>0, <2>1, AfterPutOn DEF NetBoxOK
  <2>4. \A ip \in Placed : StaysOn(ip)
    BY <2>2, <2>3 DEF StaysOn
  <2>5. NoAddressLeftLoose'
    BY <1>0, <1>s, <2>1, <2>4, PlaceStays, InPlace
  <2>6. ASSUME NEW u \in works' PROVE Fits(u, works)'
    BY <1>0, <1>s, <2>1, <2>4, FitsStays DEF StaysOn
  <2> QED BY <2>5, <2>6 DEF LooseInv
<1>6. ASSUME NEW i, SomeoneDeletes(i) PROVE LooseInv'
  <2>1. /\ pc = "do" /\ pc' = pc /\ was' = was /\ script' = script /\ works' = works
        /\ ips' = ips
    BY <1>6 DEF SomeoneDeletes
  <2>2. /\ InUse(ifs)' = InUse(ifs) \ {i} /\ ifs'[i] = Gone
        /\ \A j \in Ids : j # i => ifs'[j] = ifs[j]
    BY <1>0, <1>6, AfterSomeoneDeletes DEF NetBoxOK
  <2>3. InterfacesLast
    BY <2>2, NoneAssumption DEF InterfacesLast
  <2>4. NoAddressLeftLoose'
    BY <1>0, <1>t, <2>1, <2>3, PlaceStays, InPlace
  <2>5. ASSUME NEW u \in works' PROVE Fits(u, works)'
    BY <1>0, <1>t, <2>1, <2>3, FitsStays DEF StaysOn
  <2> QED BY <2>4, <2>5 DEF LooseInv
<1>7. CASE UNCHANGED vars
  <2>1. /\ ifs' = ifs /\ ips' = ips /\ was' = was /\ script' = script
        /\ pc' = pc /\ works' = works
    BY <1>7 DEF vars
  <2>2. NoAddressLeftLoose'
    BY <1>0, <1>s, <1>t, <2>1, PlaceStays, InPlace
  <2>3. ASSUME pc' = "do", NEW u \in works' PROVE Fits(u, works)'
    BY <1>0, <1>s, <1>t, <2>1, <2>3, FitsStays DEF StaysOn
  <2> QED BY <2>2, <2>3 DEF LooseInv
<1> QED BY <1>1, <1>2, <1>3, <1>4, <1>5, <1>6, <1>7 DEF Next

LEMMA LooseInvariance == Spec => []LooseInv
  BY TypeInvariance, InitLooseInv, NextLooseInv, PTL DEF Spec

\* Wherever runs stop, and with others who assign addresses that are on nothing
\* and delete empty subinterfaces: every address that was on an interface still
\* is, unless the command was to delete it.
THEOREM NoneIsLeftLoose == Spec => []NoAddressLeftLoose
<1>1. LooseInv => NoAddressLeftLoose
  BY DEF LooseInv
<1> QED BY <1>1, LooseInvariance, PTL

-----------------------------------------------------------------------------
\* Ports stay: parents are ports, and only subinterfaces are deleted.

KeepsPorts(w) ==
    /\ w.op = "CreateInterface" => w.parent \in InUse(ifs) /\ ifs[w.parent].sub = 0
    /\ w.op = "DeleteInterface" =>
           /\ w.id \in Ids /\ ifs[w.id] # None
           /\ w.id \in InUse(ifs) => ifs[w.id].sub # 0

PortsInv == ParentsArePorts(netbox) /\ (pc = "do" => \A w \in works : KeepsPorts(w))

LEMMA ParentsOfNetBox ==
  ParentsArePorts(netbox) <=>
      \A i \in InUse(ifs) : ifs[i].parent # None => ifs[ifs[i].parent].sub = 0
  BY DEF ParentsArePorts, netbox

\* What a work changes, and what it leaves as it is.
InterfacesAfter(w) ==
    /\ \A i \in InUse(ifs) :
           i \in InUse(ifs)' \/ (w.op = "DeleteInterface" /\ w.id = i)
    /\ \A i \in InUse(ifs)' :
           \/ i \in InUse(ifs) /\ ifs'[i].parent = ifs[i].parent
           \/ /\ w.op = "CreateInterface" /\ i \notin InUse(ifs) /\ ifs'[i].parent = w.parent
              /\ ifs'[i].port = w.port /\ ifs'[i].sub = w.sub
    /\ \A i \in InUse(ifs) : w.op # "ModifyInterface" \/ w.id # i => ifs'[i] = ifs[i] \/ ifs'[i] = Gone
AddressesAfter(w) ==
    /\ \A ip \in InUse(ips) :
           ip \in InUse(ips)' \/ (w.op = "DeleteIPAddress" /\ w.id = ip)
    /\ \A ip \in InUse(ips)' :
           \/ ips'[ip].anycast
           \/ /\ ip \in InUse(ips) /\ ~(w.op = "ModifyIPAddress" /\ w.id = ip)
              /\ ips'[ip].addr = ips[ip].addr /\ ips'[ip].vrf = ips[ip].vrf
              /\ ips'[ip].anycast = ips[ip].anycast

LEMMA WorkAfter ==
  ASSUME NetBoxOK, NEW w, IsWork(w), Resolves(w), Accepts(w), Execute(w)
  PROVE  /\ InterfacesAfter(w) /\ AddressesAfter(w)
         /\ w.op # "ModifyCable" => at' = at
<1>0. TablesOK
  BY DEF NetBoxOK
<1>a. InUse(ifs) = {i \in Ids : ifs[i] \in Interface} /\ InUse(ips) = {ip \in Ips : ips[ip] \in Address}
  BY <1>0, InterfacesInUse, AddressesInUse DEF TablesOK
<1>s. ifs' = ifs => InterfacesAfter(w)
  BY DEF InterfacesAfter
<1>t. ips' = ips /\ w.op # "ModifyIPAddress" => AddressesAfter(w)
  BY DEF AddressesAfter
<1> DEFINE Goal == InterfacesAfter(w) /\ AddressesAfter(w) /\ (w.op # "ModifyCable" => at' = at)
<1>1. CASE CableMoves(w)
  BY <1>1, <1>s, <1>t DEF CableMoves
<1>2. ASSUME NEW i \in Ids, Creates(w, i) PROVE Goal
  <2>1. /\ i \notin InUse(ifs) /\ InUse(ifs)' = InUse(ifs) \cup {i} /\ ips' = ips
        /\ \A j \in InUse(ifs) : ifs'[j] = ifs[j]
        /\ ifs'[i].port = w.port /\ ifs'[i].sub = w.sub /\ ifs'[i].parent = w.parent
    BY <1>0, <1>2, AfterCreates
  <2>2. w.op = "CreateInterface" /\ at' = at
    BY <1>2 DEF Creates
  <2>3. InterfacesAfter(w)
    BY <2>1, <2>2 DEF InterfacesAfter
  <2> QED BY <1>t, <2>1, <2>2, <2>3
<1>3. CASE Modifies(w)
  <2>1. /\ SameInterfaces /\ ips' = ips
        /\ \A i \in InUse(ifs) : i # w.id => ifs'[i] = ifs[i]
    BY <1>0, <1>3, AfterModifies
  <2>2. w.op = "ModifyInterface" /\ at' = at
    BY <1>3 DEF Modifies
  <2>3. InterfacesAfter(w)
    BY <2>1, <2>2 DEF InterfacesAfter, SameInterfaces
  <2> QED BY <1>t, <2>1, <2>2, <2>3
<1>4. CASE Deletes(w)
  <2>1. /\ InUse(ifs)' = InUse(ifs) \ {w.id} /\ ifs'[w.id] = Gone
        /\ \A i \in Ids : i # w.id => ifs'[i] = ifs[i]
        /\ InUse(ips)' = InUse(ips) /\ SameRecords(InUse(ips))
        /\ \A ip \in InUse(ips) : ips'[ip].anycast = ips[ip].anycast
    BY <1>0, <1>4, AfterDeletes
  <2>2. w.op = "DeleteInterface" /\ at' = at
    BY <1>4 DEF Deletes
  <2>3. InterfacesAfter(w)
    BY <1>a, <2>1, <2>2 DEF InterfacesAfter
  <2>4. AddressesAfter(w)
    BY <2>1, <2>2 DEF AddressesAfter, SameRecords
  <2> QED BY <2>2, <2>3, <2>4
<1>5. CASE DeletesIp(w)
  <2>1. /\ ifs' = ifs /\ InUse(ips)' = InUse(ips) \ {w.id}
        /\ \A ip \in Ips : ip # w.id => ips'[ip] = ips[ip]
    BY <1>0, <1>5, AfterDeletesIp
  <2>2. w.op = "DeleteIPAddress" /\ at' = at
    BY <1>5 DEF DeletesIp
  <2>3. AddressesAfter(w)
    BY <1>a, <2>1, <2>2 DEF AddressesAfter
  <2> QED BY <1>s, <2>1, <2>2, <2>3
<1>6. CASE MakesAnycast(w)
  <2>1. /\ ifs' = ifs /\ InUse(ips)' = InUse(ips)
        /\ \A ip \in InUse(ips) : ip # w.id => ips'[ip] = ips[ip]
        /\ ips'[w.id].anycast
    BY <1>0, <1>6, AfterMakesAnycast
  <2>2. w.op = "ModifyIPAddress" /\ at' = at
    BY <1>6 DEF MakesAnycast
  <2>3. AddressesAfter(w)
    BY <2>1, <2>2 DEF AddressesAfter
  <2> QED BY <1>s, <2>1, <2>2, <2>3
<1>7. CASE Reassigns(w)
  <2>1. /\ ifs' = ifs /\ InUse(ips)' = InUse(ips) /\ SameRecords(InUse(ips))
        /\ \A ip \in InUse(ips) : ips'[ip].anycast = ips[ip].anycast
    BY <1>0, <1>7, AfterReassigns
  <2>2. w.op = "ReassignIPAddress" /\ at' = at
    BY <1>7 DEF Reassigns
  <2>3. AddressesAfter(w)
    BY <2>1, <2>2 DEF AddressesAfter, SameRecords
  <2> QED BY <1>s, <2>1, <2>2, <2>3
<1>8. ASSUME NEW new \in Ips, Assigns(w, new) PROVE Goal
  <2>1. /\ ifs' = ifs /\ InUse(ips)' = InUse(ips) \cup {new}
        /\ \A other \in InUse(ips) : ips'[other] = ips[other]
        /\ ips'[new] = [addr |-> w.addr, on |-> Destination(w), anycast |-> TRUE,
                        vrf |-> w.vrf]
    BY <1>0, <1>8, AfterAssigns
  <2>2. w.op = "AssignIPAddress" /\ at' = at
    BY <1>8 DEF Assigns
  <2>3. ips'[new].anycast
    BY <2>1
  <2>4. AddressesAfter(w)
    BY <2>1, <2>2, <2>3 DEF AddressesAfter
  <2> QED BY <1>s, <2>1, <2>2, <2>4
<1> QED
  BY <1>0, <1>1, <1>2, <1>3, <1>4, <1>5, <1>6, <1>7, <1>8, WorkDone

LEMMA PlanKeepsPorts ==
  ASSUME NetBoxOK, script \in Seq(Command) \ {<< >>}, ~Fails, NEW w, w \in ThePlan
  PROVE  KeepsPorts(w)
<1>0. /\ Zapping \/ Migrating \/ Cloning \/ Setting
      /\ Zapping \/ Setting => cmd.targets \in Seq(Ports)
      /\ TablesOK /\ NamesAreUnique
  BY CommandIs DEF NetBoxOK
<1>1. InUse(ifs) = {i \in Ids : ifs[i] \in Interface}
  BY <1>0, InterfacesInUse DEF TablesOK
<1>2. CASE Zapping
  <2>1. ~ZapFails(cmd.targets) /\ w \in ZapPlan(cmd.targets)
    BY <1>2 DEF Fails, ThePlan, Zapping, Migrating, Cloning, Setting
  <2>2. PICK k \in DOMAIN cmd.targets, i \in InUse(ifs) : ZapWork(w, k, i)
    BY <1>0, <1>2, <2>1, ZapPlanned
  <2>3. \/ w.op \in {"DeleteIPAddress", "ModifyInterface"}
        \/ w.op = "DeleteInterface" /\ w.id = i /\ ifs[i].sub # 0
    BY <2>2 DEF ZapWork, DeleteIPAddress, DeleteInterface, ModifyInterface
  <2> QED BY <1>1, <2>3, NoneAssumption DEF KeepsPorts
<1>3. CASE Migrating
  <2>1. ~MigrateFails(cmd.src, cmd.tgt) /\ w \in MigratePlan(cmd.src, cmd.tgt)
    BY <1>3 DEF Fails, ThePlan, Zapping, Migrating, Cloning, Setting
  <2>2. PICK i \in InUse(ifs) : MigrateWork(w, cmd.src, cmd.tgt, i)
    BY <1>0, <2>1, MigratePlanned
  <2>3. IdOf(cmd.tgt, 0) \in InUse(ifs) /\ ifs[IdOf(cmd.tgt, 0)].sub = 0
    BY <1>0, <2>1, SoundTree DEF MigrateFails
  <2>4. \/ w.op \in {"ModifyCable", "ReassignIPAddress", "ModifyInterface"}
        \/ w.op = "DeleteInterface" /\ w.id = i /\ ifs[i].sub # 0
        \/ w.op = "CreateInterface" /\ w.parent = IdOf(cmd.tgt, 0)
    BY <2>2 DEF MigrateWork, ModifyCable, ReassignIPAddress, ModifyInterface, DeleteInterface,
                CreateInterface
  <2> QED BY <1>1, <2>3, <2>4, NoneAssumption DEF KeepsPorts
<1>4. CASE Cloning
  <2>1. ~CloneFails(cmd.src, cmd.tgt) /\ w \in ClonePlan(cmd.src, cmd.tgt)
    BY <1>4 DEF Fails, ThePlan, Zapping, Migrating, Cloning, Setting
  <2>2. PICK i \in InUse(ifs) : CloneWork(w, cmd.tgt, i)
    BY <1>0, <2>1, ClonePlanned
  <2>3. IdOf(cmd.tgt, 0) \in InUse(ifs) /\ ifs[IdOf(cmd.tgt, 0)].sub = 0
    BY <1>0, <2>1, SoundTree DEF CloneFails
  <2>4. \/ w.op \in {"ModifyIPAddress", "AssignIPAddress", "ModifyInterface"}
        \/ w.op = "CreateInterface" /\ w.parent = IdOf(cmd.tgt, 0)
    BY <2>2 DEF CloneWork, MakeAnycast, AssignIPAddress, ModifyInterface, CreateInterface
  <2> QED BY <2>3, <2>4 DEF KeepsPorts
<1>5. CASE Setting
  <2>1. ~SetTypeFails(cmd.targets) /\ w \in SetTypePlan(cmd.targets, cmd.kind)
    BY <1>5 DEF Fails, ThePlan, Zapping, Migrating, Cloning, Setting
  <2>2. PICK k \in DOMAIN cmd.targets, i \in InUse(ifs) : SetTypeWork(w, k, i, cmd.kind)
    BY <1>0, <2>1, SetTypePlanned
  <2>3. w.op = "ModifyInterface"
    BY <2>2 DEF SetTypeWork, ModifyInterface
  <2> QED BY <2>3 DEF KeepsPorts
<1> QED BY <1>0, <1>2, <1>3, <1>4, <1>5

\* While the ports stay, so does what is said of them.
LEMMA KeepsPortsStays ==
  ASSUME InterfacesLast, NEW w, KeepsPorts(w), ifs \in [Ids -> Interface \cup {None, Gone}],
         \A i \in InUse(ifs) : ifs[i].sub = 0 => i \in InUse(ifs)'
  PROVE  KeepsPorts(w)'
<1>1. InUse(ifs) = {i \in Ids : ifs[i] \in Interface}
  BY InterfacesInUse
<1>2. w.op = "CreateInterface" => w.parent \in InUse(ifs)' /\ ifs'[w.parent].sub = 0
  BY <1>1, NoneAssumption DEF KeepsPorts, InterfacesLast
<1>3. w.op = "DeleteInterface" =>
          /\ w.id \in Ids /\ ifs'[w.id] # None
          /\ w.id \in InUse(ifs)' => ifs'[w.id].sub # 0
  BY DEF KeepsPorts, InterfacesLast
<1> QED BY <1>2, <1>3 DEF KeepsPorts

LEMMA NextPortsInv ==
  TypeInv /\ TypeInv' /\ PortsInv /\ [Next]_vars => PortsInv'
<1> SUFFICES ASSUME TypeInv, TypeInv', PortsInv, [Next]_vars PROVE PortsInv'
  OBVIOUS
<1>0. /\ NetBoxOK /\ TablesOK /\ ParentsExist /\ NetBoxOK' /\ ParentsExist' /\ ScalarsOK
      /\ \A w \in works : IsWork(w)
      /\ pc = "do" => \A w \in works : KeepsPorts(w)
      /\ ifs \in [Ids -> Interface \cup {None, Gone}]
  BY DEF TypeInv, PortsInv, NetBoxOK, TablesOK
<1>a. \A i \in InUse(ifs) : ifs[i].parent # None => ifs[ifs[i].parent].sub = 0
  BY ParentsOfNetBox DEF PortsInv
<1>b. InUse(ifs) = {i \in Ids : ifs[i] \in Interface}
  BY <1>0, InterfacesInUse
<1>c. (\A i \in InUse(ifs) : ifs[i].parent # None => ifs[ifs[i].parent].sub = 0)'
          => ParentsArePorts(netbox)'
  BY DEF ParentsArePorts, netbox
<1>s. ASSUME ifs' = ifs
      PROVE  /\ InterfacesLast /\ ParentsArePorts(netbox)'
             /\ \A i \in InUse(ifs) : ifs[i].sub = 0 => i \in InUse(ifs)'
  <2>1. InterfacesLast
    BY <1>s DEF InterfacesLast
  <2> QED BY <1>a, <1>c, <1>s, <2>1 DEF InUse, Exists
<1>1. CASE Plan
  <2>1. ifs' = ifs /\ (pc' = "do" => ~Fails /\ works' = ThePlan)
    BY <1>1 DEF Plan, rest
  <2>2. ASSUME pc' = "do", NEW w \in works' PROVE KeepsPorts(w)'
    BY <1>0, <1>s, <2>1, <2>2, PlanKeepsPorts, KeepsPortsStays DEF ScalarsOK
  <2> QED BY <1>s, <2>1, <2>2 DEF PortsInv
<1>2. ASSUME NEW w \in works, DoWork(w) PROVE PortsInv'
  <2>1. /\ pc = "do" /\ works' \subseteq works /\ KeepsPorts(w)
        /\ Resolves(w) /\ Accepts(w) /\ Execute(w)
    BY <1>0, <1>2 DEF DoWork
  <2>2. InterfacesLast /\ InterfacesAfter(w)
    BY <1>0, <2>1, WorkTouches, WorkAfter
  <2>3. \A i \in InUse(ifs) : ifs[i].sub = 0 => i \in InUse(ifs)'
    BY <2>1, <2>2 DEF InterfacesAfter, KeepsPorts
  <2>4. \A u \in works' : KeepsPorts(u)'
    BY <1>0, <2>1, <2>2, <2>3, KeepsPortsStays
  <2>5. ASSUME NEW i \in InUse(ifs)', ifs'[i].parent # None
        PROVE  ifs'[ifs'[i].parent].sub = 0
    <3>1. ifs'[i].parent \in InUse(ifs)'
      BY <1>0, <2>5 DEF ParentsExist
    <3>2. ifs'[i].parent \in InUse(ifs) /\ ifs[ifs'[i].parent].sub = 0
      BY <1>0, <1>a, <2>1, <2>2, <2>5 DEF InterfacesAfter, ParentsExist, KeepsPorts
    <3>3. ifs'[i].parent \in Ids /\ ifs[ifs'[i].parent] # None
      BY <1>b, <3>2, NoneAssumption
    <3> QED BY <2>2, <3>1, <3>2, <3>3 DEF InterfacesLast
  <2> QED BY <1>c, <2>4, <2>5 DEF PortsInv
<1>3. CASE \/ \E w \in works : WorkFails(w)
           \/ Stop \/ Finish \/ RunAgain \/ NextCommand
  <2>1. ifs' = ifs /\ pc' # "do"
    BY <1>3 DEF WorkFails, Stop, Finish, RunAgain, NextCommand, rest
  <2> QED BY <1>s, <2>1 DEF PortsInv
<1>4. ASSUME NEW i, NEW ip, SomeoneAssigns(ip, i) PROVE PortsInv'
  <2>1. ifs' = ifs /\ pc' = pc /\ works' = works
    BY <1>4 DEF SomeoneAssigns
  <2>2. ASSUME pc = "do", NEW w \in works PROVE KeepsPorts(w)'
    BY <1>0, <1>s, <2>1, <2>2, KeepsPortsStays
  <2> QED BY <1>s, <2>1, <2>2 DEF PortsInv
<1>5. ASSUME NEW i, SomeoneDeletes(i) PROVE PortsInv'
  <2>1. /\ InUse(ifs)' = InUse(ifs) \ {i} /\ ifs'[i] = Gone
        /\ \A j \in Ids : j # i => ifs'[j] = ifs[j]
    BY <1>0, <1>5, AfterSomeoneDeletes
  <2>2. ifs[i].sub # 0 /\ pc' = pc /\ works' = works
    BY <1>5 DEF SomeoneDeletes
  <2>3. InterfacesLast
    BY <2>1, NoneAssumption DEF InterfacesLast
  <2>4. \A j \in InUse(ifs) : ifs[j].sub = 0 => j \in InUse(ifs)'
    BY <2>1, <2>2
  <2>5. ASSUME pc = "do", NEW w \in works PROVE KeepsPorts(w)'
    BY <1>0, <2>3, <2>4, <2>5, KeepsPortsStays
  <2>6. ASSUME NEW j \in InUse(ifs)', ifs'[j].parent # None
        PROVE  ifs'[ifs'[j].parent].sub = 0
    <3>1. j \in InUse(ifs) /\ ifs'[j] = ifs[j]
      BY <1>b, <2>1, <2>6
    <3>2. ifs'[j].parent \in InUse(ifs)'
      BY <1>0, <2>6 DEF ParentsExist
    <3>3. ifs'[j].parent \in Ids /\ ifs'[j].parent # i
      BY <1>b, <2>1, <3>2
    <3> QED BY <1>a, <2>1, <2>6, <3>1, <3>3
  <2> QED BY <1>c, <2>2, <2>5, <2>6 DEF PortsInv
<1>6. CASE UNCHANGED vars
  <2>1. ifs' = ifs /\ pc' = pc /\ works' = works
    BY <1>6 DEF vars
  <2>2. ASSUME pc = "do", NEW w \in works PROVE KeepsPorts(w)'
    BY <1>0, <1>s, <2>1, <2>2, KeepsPortsStays
  <2> QED BY <1>s, <2>1, <2>2 DEF PortsInv
<1> QED BY <1>1, <1>2, <1>3, <1>4, <1>5, <1>6 DEF Next

LEMMA PortsInvariance == ASSUME NoGrandchildren PROVE Spec => []PortsInv
<1>1. Init => PortsInv
  <2> SUFFICES ASSUME Init PROVE PortsInv
    OBVIOUS
  <2>1. PICK situation \in Situations : ifs = situation.netbox.ifs
    BY DEF Init
  <2>2. ParentsArePorts(situation.netbox)
    BY DEF NoGrandchildren
  <2> QED BY <2>1, <2>2 DEF Init, PortsInv, ParentsArePorts, netbox
<1> QED BY <1>1, TypeInvariance, NextPortsInv, PTL DEF Spec

-----------------------------------------------------------------------------
\* Refused in time: the plans are in an order that NetBox accepts.

Anycasts(t, ip) == t.op = "ModifyIPAddress" /\ t.id = ip

\* What NetBox asks of w is there, or a sooner work of S provides it.
Ready(w, S) ==
    /\ w.op \in {"DeleteIPAddress", "ModifyIPAddress", "ReassignIPAddress"} => w.id \in InUse(ips)
    /\ w.op \in {"ModifyInterface", "DeleteInterface"} => w.id \in InUse(ifs)
    /\ w.op = "CreateInterface" => Named(w.port, w.sub) = {}
    /\ w.op = "AssignIPAddress" =>
           /\ w.id # None => w.id \in InUse(ifs)
           /\ \A ip \in InUse(ips) :
                  ips[ip].addr = w.addr /\ ips[ip].vrf = w.vrf =>
                      ips[ip].anycast \/ \E t \in S : Anycasts(t, ip) /\ Sooner(t, w)
    /\ w.op = "ModifyCable" => Migrating /\ w.port = cmd.tgt /\ w.end = at[cmd.src]

\* Work v does not take away what w asks for.
Apart(v, w) ==
    /\ v.op = "DeleteIPAddress" /\ w.op \in {"DeleteIPAddress", "ModifyIPAddress", "ReassignIPAddress"}
           => v.id # w.id
    /\ v.op = "DeleteInterface" /\ w.op \in {"DeleteInterface", "ModifyInterface", "AssignIPAddress"}
           => v.id # w.id
    /\ v.op = "CreateInterface" /\ w.op = "CreateInterface" => v.port # w.port \/ v.sub # w.sub
    /\ v.op = "ModifyCable" => w.op # "ModifyCable" /\ Sooner(v, w)

LEMMA ZapReady ==
  ASSUME NetBoxOK, Zapping, cmd.targets \in Seq(Ports), ~ZapFails(cmd.targets),
         IsInjective(cmd.targets),
         NEW v, v \in ZapPlan(cmd.targets), NEW w, w \in ZapPlan(cmd.targets), NEW S
  PROVE  Ready(w, S) /\ (v # w => Apart(v, w))
<1>0. TablesOK /\ NamesAreUnique
  BY DEF NetBoxOK
<1>1. PICK k \in DOMAIN cmd.targets, i \in InUse(ifs) :
         ifs[i].port = cmd.targets[k] /\ ZapWork(v, k, i)
  BY <1>0, ZapPlanned
<1>2. PICK m \in DOMAIN cmd.targets, j \in InUse(ifs) :
         ifs[j].port = cmd.targets[m] /\ ZapWork(w, m, j)
  BY <1>0, ZapPlanned
<1>3. i = j => k = m
  BY <1>1, <1>2 DEF IsInjective
<1>4. \/ w.op = "DeleteIPAddress" /\ w.id \in IpsOn(j)
      \/ w.op \in {"DeleteInterface", "ModifyInterface"} /\ w.id = j
  BY <1>2 DEF ZapWork, DeleteIPAddress, DeleteInterface, ModifyInterface
<1>5. Ready(w, S)
  BY <1>4 DEF Ready, IpsOn
<1>6. ASSUME v.op = "DeleteIPAddress", w.op = "DeleteIPAddress", v.id = w.id
      PROVE  v = w
  <2>1. /\ v.id \in IpsOn(i)
        /\ v = IF ifs[i].sub # 0 THEN DeleteIPAddress(<<k, 1, ifs[i].sub, 1, v.id>>, v.id)
               ELSE DeleteIPAddress(<<k, 2, ifs[i].sub, 1, v.id>>, v.id)
    BY <1>1, <1>6 DEF ZapWork, DeleteIPAddress, DeleteInterface, ModifyInterface
  <2>2. /\ w.id \in IpsOn(j)
        /\ w = IF ifs[j].sub # 0 THEN DeleteIPAddress(<<m, 1, ifs[j].sub, 1, w.id>>, w.id)
               ELSE DeleteIPAddress(<<m, 2, ifs[j].sub, 1, w.id>>, w.id)
    BY <1>2, <1>6 DEF ZapWork, DeleteIPAddress, DeleteInterface, ModifyInterface
  <2>3. i = j
    BY <1>6, <2>1, <2>2 DEF IpsOn
  <2> QED BY <1>3, <1>6, <2>1, <2>2, <2>3
<1>7. ASSUME v.op = "DeleteInterface", w.op \in {"DeleteInterface", "ModifyInterface"}, v.id = w.id
      PROVE  v = w
  <2>1. i = v.id /\ ifs[i].sub # 0 /\ v = DeleteInterface(<<k, 1, ifs[i].sub, 2>>, i)
    BY <1>1, <1>7 DEF ZapWork, DeleteIPAddress, DeleteInterface, ModifyInterface
  <2>2. /\ j = w.id
        /\ ifs[j].sub # 0 => w = DeleteInterface(<<m, 1, ifs[j].sub, 2>>, j)
    BY <1>2, <1>7 DEF ZapWork, DeleteIPAddress, DeleteInterface, ModifyInterface
  <2> QED BY <1>3, <1>7, <2>1, <2>2
<1>8. v.op \in {"DeleteIPAddress", "DeleteInterface", "ModifyInterface"}
  BY <1>1 DEF ZapWork, DeleteIPAddress, DeleteInterface, ModifyInterface
<1>9. v # w => Apart(v, w)
  BY <1>4, <1>6, <1>7, <1>8 DEF Apart
<1> QED BY <1>5, <1>9

\* The source is looked up at the right side of its cable.
LEMMA SourceEndIs ==
  ASSUME TablesOK, EndsDoNotClash, NEW src \in Ports, at[src] # None
  PROVE  SourceEnd(src) = at[src]
<1>1. at[src] \in CableEnds
  BY DEF TablesOK
<1>2. at[src] = <<at[src][1], "a">> \/ at[src] = <<at[src][1], "b">>
  BY <1>1 DEF CableEnds
<1>3. \A t \in Plugged(<<at[src][1], "a">>) : IdOfEnd[t] = IdOfEnd[src] => t = src
  BY DEF Plugged, EndsDoNotClash
<1>4. src \in Plugged(<<at[src][1], "a">>) <=> at[src] = <<at[src][1], "a">>
  BY DEF Plugged
<1> QED BY <1>2, <1>3, <1>4 DEF SourceEnd

LEMMA MigrateReady ==
  ASSUME NetBoxOK, EndsDoNotClash, Migrating, cmd.src \in Ports,
         ~MigrateFails(cmd.src, cmd.tgt),
         NEW v, v \in MigratePlan(cmd.src, cmd.tgt),
         NEW w, w \in MigratePlan(cmd.src, cmd.tgt), NEW S
  PROVE  Ready(w, S) /\ (v # w => Apart(v, w))
<1>0. TablesOK /\ NamesAreUnique
  BY DEF NetBoxOK
<1> DEFINE p == IdOf(cmd.tgt, 0)
<1>1. PICK i \in InUse(ifs) : ifs[i].port = cmd.src /\ MigrateWork(v, cmd.src, cmd.tgt, i)
  BY <1>0, MigratePlanned
<1>2. PICK j \in InUse(ifs) : ifs[j].port = cmd.src /\ MigrateWork(w, cmd.src, cmd.tgt, j)
  BY <1>0, MigratePlanned
<1>3. ifs[i].sub = ifs[j].sub => i = j
  BY <1>0, <1>1, <1>2 DEF NamesAreUnique
<1>4. TreeIsSound(cmd.tgt) /\ SubsOf(cmd.tgt) = {}
  BY DEF MigrateFails
<1>5. p \in InUse(ifs) /\ ifs[p].sub = 0
  BY <1>0, <1>4, SoundTree
<1>6. \A k \in InUse(ifs) : ifs[k].port = cmd.tgt => ifs[k].sub = 0
  <2>1. ByParent(cmd.tgt) = {}
    BY <1>4 DEF SubsOf
  <2> QED BY <1>0, <1>4, <2>1, SoundTree
<1>7. \/ at[cmd.src] # None /\ w = ModifyCable(<<1>>, SourceEnd(cmd.src), cmd.tgt)
      \/ w.op = "ReassignIPAddress" /\ w.id \in IpsOn(j)
      \/ w.op = "ModifyInterface" /\ w.id = p
      \/ /\ w.op = "DeleteInterface" /\ ifs[j].sub # 0 /\ w.id = j
         /\ w = DeleteInterface(<<2, ifs[j].sub, 3>>, j)
      \/ /\ w.op = "CreateInterface" /\ w.port = cmd.tgt /\ w.sub = ifs[j].sub /\ ifs[j].sub # 0
         /\ w = CreateInterface(<<2, ifs[j].sub, 1>>, cmd.tgt, ifs[j].sub, p, Values(j))
  BY <1>2 DEF MigrateWork, ReassignIPAddress, ModifyInterface, DeleteInterface, CreateInterface
<1>8. \/ at[cmd.src] # None /\ v = ModifyCable(<<1>>, SourceEnd(cmd.src), cmd.tgt)
      \/ v.op \in {"ReassignIPAddress", "ModifyInterface"}
      \/ /\ v.op = "DeleteInterface" /\ ifs[i].sub # 0 /\ v.id = i
         /\ v = DeleteInterface(<<2, ifs[i].sub, 3>>, i)
      \/ /\ v.op = "CreateInterface" /\ v.port = cmd.tgt /\ v.sub = ifs[i].sub
         /\ v = CreateInterface(<<2, ifs[i].sub, 1>>, cmd.tgt, ifs[i].sub, p, Values(i))
  BY <1>1 DEF MigrateWork, ReassignIPAddress, ModifyInterface, DeleteInterface, CreateInterface
<1>9. Ready(w, S)
  <2>1. CASE at[cmd.src] # None /\ w = ModifyCable(<<1>>, SourceEnd(cmd.src), cmd.tgt)
    <3>1. w.op = "ModifyCable" /\ w.port = cmd.tgt /\ w.end = at[cmd.src]
      BY <1>0, <2>1, SourceEndIs DEF ModifyCable
    <3> QED BY <3>1 DEF Ready
  <2>2. CASE w.op = "CreateInterface" /\ w.port = cmd.tgt /\ w.sub = ifs[j].sub /\ ifs[j].sub # 0
    <3>1. Named(w.port, w.sub) = {}
      BY <1>6, <2>2 DEF Named
    <3> QED BY <2>2, <3>1 DEF Ready
  <2> QED BY <1>5, <1>7, <2>1, <2>2 DEF Ready, IpsOn
<1>10. ASSUME v.op = "ModifyCable", v # w
       PROVE  w.op # "ModifyCable" /\ Sooner(v, w)
  <2>1. v = ModifyCable(<<1>>, SourceEnd(cmd.src), cmd.tgt)
    BY <1>8, <1>10
  <2>2. v.nr = <<1>>
    BY <2>1 DEF ModifyCable
  <2>3. w # ModifyCable(<<1>>, SourceEnd(cmd.src), cmd.tgt)
    BY <1>10, <2>1
  <2>4. w.op # "ModifyCable"
    BY <1>7, <2>3
  <2>5. 1 \in DOMAIN w.nr /\ w.nr[1] = 2
    <3>1. \/ \E ip \in IpsOn(j) :
                w = ReassignIPAddress(<<2, ifs[j].sub, 2, ip>>, ip, cmd.tgt, ifs[j].sub)
          \/ w = ModifyInterface(<<2, 0, 1>>, p, Values(j))
          \/ w = CreateInterface(<<2, ifs[j].sub, 1>>, cmd.tgt, ifs[j].sub, p, Values(j))
          \/ w = DeleteInterface(<<2, ifs[j].sub, 3>>, j)
      BY <1>2, <2>3 DEF MigrateWork
    <3>2. \/ \E ip \in IpsOn(j) : w.nr = <<2, ifs[j].sub, 2, ip>>
          \/ w.nr = <<2, 0, 1>>
          \/ w.nr = <<2, ifs[j].sub, 1>>
          \/ w.nr = <<2, ifs[j].sub, 3>>
      BY <3>1 DEF ReassignIPAddress, ModifyInterface, CreateInterface, DeleteInterface
    <3> QED BY <3>2
  <2>6. Sooner(v, w)
    <3>1. 1 \in DOMAIN v.nr \cap DOMAIN w.nr
      BY <2>2, <2>5
    <3>2. v.nr[1] < w.nr[1] /\ \A m \in 1 .. (1 - 1) : v.nr[m] = w.nr[m]
      BY <2>2, <2>5
    <3> QED BY <3>1, <3>2 DEF Sooner
  <2> QED BY <2>4, <2>6
<1>11. ASSUME v.op = "DeleteInterface", w.op \in {"DeleteInterface", "ModifyInterface", "AssignIPAddress"},
              v.id = w.id
       PROVE  v = w
  <2>1. v.id = i /\ ifs[i].sub # 0 /\ v = DeleteInterface(<<2, ifs[i].sub, 3>>, i)
    BY <1>8, <1>11 DEF ModifyCable
  <2>2. \/ w.id = p /\ w.op = "ModifyInterface"
        \/ w.id = j /\ w = DeleteInterface(<<2, ifs[j].sub, 3>>, j)
    BY <1>7, <1>11 DEF ModifyCable
  <2> QED BY <1>5, <1>11, <2>1, <2>2
<1>12. ASSUME v.op = "CreateInterface", w.op = "CreateInterface", v.sub = w.sub
       PROVE  v = w
  <2>1. v.sub = ifs[i].sub /\ v = CreateInterface(<<2, ifs[i].sub, 1>>, cmd.tgt, ifs[i].sub, p, Values(i))
    BY <1>8, <1>12 DEF ModifyCable
  <2>2. w.sub = ifs[j].sub /\ w = CreateInterface(<<2, ifs[j].sub, 1>>, cmd.tgt, ifs[j].sub, p, Values(j))
    BY <1>7, <1>12 DEF ModifyCable
  <2> QED BY <1>3, <1>12, <2>1, <2>2
<1>13. v.op # "DeleteIPAddress"
  BY <1>8 DEF ModifyCable
<1> QED BY <1>9, <1>10, <1>11, <1>12, <1>13 DEF Apart

LEMMA CloneReady ==
  ASSUME NetBoxOK, Cloning, ~CloneFails(cmd.src, cmd.tgt),
         NEW v, v \in ClonePlan(cmd.src, cmd.tgt), NEW w, w \in ClonePlan(cmd.src, cmd.tgt)
  PROVE  Ready(w, ClonePlan(cmd.src, cmd.tgt)) /\ (v # w => Apart(v, w))
<1>0. TablesOK /\ NamesAreUnique /\ TwiceOnlyAnycast
  BY DEF NetBoxOK
<1> DEFINE Taken(i) ==
             ifs[i].port = cmd.src /\ (ifs[i].sub = 0 \/ ifs[i].conf # NotCloned)
<1>1. PICK i \in InUse(ifs) : Taken(i) /\ CloneWork(v, cmd.tgt, i)
  BY <1>0, ClonePlanned
<1>2. PICK j \in InUse(ifs) : Taken(j) /\ CloneWork(w, cmd.tgt, j)
  BY <1>0, ClonePlanned
<1>3. ifs[i].sub = ifs[j].sub => i = j
  BY <1>0, <1>1, <1>2 DEF NamesAreUnique
<1> DEFINE sub == ifs[j].sub
           twin == IdOf(cmd.tgt, ifs[j].sub)
<1>4. /\ twin # None => twin \in InUse(ifs)
      /\ twin = None => Named(cmd.tgt, sub) = {}
  BY <1>0, IdOfName DEF Named
<1>5. \/ w.op = "ModifyIPAddress" /\ w.id \in IpsOn(j)
      \/ \E ip \in IpsOn(j) : w = AssignIPAddress(<<sub, 2, ip, 2>>, ip, twin, cmd.tgt, sub)
      \/ twin = None /\ w = CreateInterface(<<sub, 1>>, cmd.tgt, sub, IdOf(cmd.tgt, 0), Values(j))
      \/ twin # None /\ w.op = "ModifyInterface" /\ w.id = twin
  BY <1>2 DEF CloneWork, Missing, MakeAnycast, ModifyInterface
<1>6. \/ v.op \in {"ModifyIPAddress", "AssignIPAddress", "ModifyInterface"}
      \/ v = CreateInterface(<<ifs[i].sub, 1>>, cmd.tgt, ifs[i].sub, IdOf(cmd.tgt, 0), Values(i))
  BY <1>1 DEF CloneWork, MakeAnycast, AssignIPAddress, ModifyInterface
<1>7. Ready(w, ClonePlan(cmd.src, cmd.tgt))
  <2>1. CASE w.op = "ModifyIPAddress" /\ w.id \in IpsOn(j)
    BY <2>1 DEF Ready, IpsOn
  <2>2. CASE w.op = "AssignIPAddress"
    <3>1. PICK ip \in Missing(j, twin) :
             w = AssignIPAddress(<<sub, 2, ip, 2>>, ip, twin, cmd.tgt, sub)
      BY <1>2, <2>2 DEF CloneWork, MakeAnycast, ModifyInterface, CreateInterface
    <3>2. /\ w.nr = <<sub, 2, ip, 2>> /\ w.id = twin
          /\ w.addr = ips[ip].addr /\ w.vrf = ips[ip].vrf
      BY <3>1 DEF AssignIPAddress
    <3>3. ip \in InUse(ips)
      BY DEF Missing, IpsOn
    <3>4. ASSUME NEW other \in InUse(ips), ips[other].addr = w.addr, ips[other].vrf = w.vrf
          PROVE  \/ ips[other].anycast
                 \/ \E t \in ClonePlan(cmd.src, cmd.tgt) : Anycasts(t, other) /\ Sooner(t, w)
      <4>1. CASE other # ip
        BY <1>0, <3>2, <3>3, <3>4, <4>1 DEF TwiceOnlyAnycast
      <4>2. CASE other = ip /\ ~ips[ip].anycast
        <5> DEFINE t == MakeAnycast(<<sub, 2, ip, 1>>, ip)
        <5>1. CloneWork(t, cmd.tgt, j)
          BY <4>2 DEF CloneWork
        <5>2. t \in ClonePlan(cmd.src, cmd.tgt)
          BY <1>0, <1>2, <5>1, ClonePlanned
        <5>3. Anycasts(t, other) /\ t.nr = <<sub, 2, ip, 1>>
          BY <4>2 DEF MakeAnycast, Anycasts
        <5>4. Sooner(t, w)
          <6>1. 4 \in DOMAIN t.nr \cap DOMAIN w.nr
            BY <3>2, <5>3
          <6>2. t.nr[4] < w.nr[4] /\ \A m \in 1 .. (4 - 1) : t.nr[m] = w.nr[m]
            BY <3>2, <5>3
          <6> QED BY <6>1, <6>2 DEF Sooner
        <5> QED BY <5>2, <5>3, <5>4
      <4> QED BY <4>1, <4>2
    <3> QED BY <1>4, <2>2, <3>2, <3>4 DEF Ready
  <2>3. CASE twin = None /\ w = CreateInterface(<<sub, 1>>, cmd.tgt, sub, IdOf(cmd.tgt, 0), Values(j))
    <3>1. w.op = "CreateInterface" /\ w.port = cmd.tgt /\ w.sub = sub
      BY <2>3 DEF CreateInterface
    <3> QED BY <1>4, <2>3, <3>1 DEF Ready
  <2>4. CASE twin # None /\ w.op = "ModifyInterface" /\ w.id = twin
    BY <1>4, <2>4 DEF Ready
  <2>5. (\E ip \in IpsOn(j) : w = AssignIPAddress(<<sub, 2, ip, 2>>, ip, twin, cmd.tgt, sub))
            => w.op = "AssignIPAddress"
    BY DEF AssignIPAddress
  <2> QED BY <1>5, <2>1, <2>2, <2>3, <2>4, <2>5
<1>8. ASSUME v.op = "CreateInterface", w.op = "CreateInterface", v.sub = w.sub
      PROVE  v = w
  <2>1. /\ v = CreateInterface(<<ifs[i].sub, 1>>, cmd.tgt, ifs[i].sub, IdOf(cmd.tgt, 0), Values(i))
        /\ w = CreateInterface(<<sub, 1>>, cmd.tgt, sub, IdOf(cmd.tgt, 0), Values(j))
    BY <1>5, <1>6, <1>8 DEF AssignIPAddress
  <2>2. v.sub = ifs[i].sub /\ w.sub = sub
    BY <2>1 DEF CreateInterface
  <2> QED BY <1>3, <1>8, <2>1, <2>2
<1>9. v.op \in {"ModifyIPAddress", "AssignIPAddress", "ModifyInterface", "CreateInterface"}
  BY <1>6 DEF CreateInterface
<1> QED BY <1>7, <1>8, <1>9 DEF Apart

\* The exception for zap-interface.
PlansOnce == ~(Zapping /\ ~IsInjective(cmd.targets))

LEMMA PlanIsReady ==
  ASSUME NetBoxOK, EndsDoNotClash, script \in Seq(Command) \ {<< >>}, ~Fails, PlansOnce,
         NEW v, v \in ThePlan, NEW w, w \in ThePlan
  PROVE  Ready(w, ThePlan) /\ (v # w => Apart(v, w))
<1>0. /\ Zapping \/ Migrating \/ Cloning \/ Setting
      /\ Zapping \/ Setting => cmd.targets \in Seq(Ports)
      /\ Migrating => cmd.src \in Ports
      /\ TablesOK
  BY CommandIs DEF NetBoxOK
<1>1. CASE Zapping
  <2>1. ~ZapFails(cmd.targets) /\ ThePlan = ZapPlan(cmd.targets)
    BY <1>1 DEF Fails, ThePlan, Zapping, Migrating, Cloning, Setting
  <2> QED BY <1>0, <1>1, <2>1, ZapReady DEF PlansOnce
<1>2. CASE Migrating
  <2>1. ~MigrateFails(cmd.src, cmd.tgt) /\ ThePlan = MigratePlan(cmd.src, cmd.tgt)
    BY <1>2 DEF Fails, ThePlan, Zapping, Migrating, Cloning, Setting
  <2> QED BY <1>0, <1>2, <2>1, MigrateReady
<1>3. CASE Cloning
  <2>1. ~CloneFails(cmd.src, cmd.tgt) /\ ThePlan = ClonePlan(cmd.src, cmd.tgt)
    BY <1>3 DEF Fails, ThePlan, Zapping, Migrating, Cloning, Setting
  <2> QED BY <1>3, <2>1, CloneReady
<1>4. CASE Setting
  <2>1. ~SetTypeFails(cmd.targets) /\ ThePlan = SetTypePlan(cmd.targets, cmd.kind)
    BY <1>4 DEF Fails, ThePlan, Zapping, Migrating, Cloning, Setting
  <2>2. ASSUME NEW u, u \in SetTypePlan(cmd.targets, cmd.kind)
        PROVE  u.op = "ModifyInterface" /\ u.id \in InUse(ifs)
    <3>1. PICK k \in DOMAIN cmd.targets, i \in InUse(ifs) : SetTypeWork(u, k, i, cmd.kind)
      BY <1>0, <2>1, <2>2, SetTypePlanned
    <3> QED BY <3>1 DEF SetTypeWork, ModifyInterface
  <2>3. v.op = "ModifyInterface" /\ w.op = "ModifyInterface" /\ w.id \in InUse(ifs)
    BY <2>1, <2>2
  <2> QED BY <2>3 DEF Ready, Apart
<1> QED BY <1>0, <1>1, <1>2, <1>3, <1>4

\* NetBox accepts the next work, if it is not one on a cable.
LEMMA ReadyAccepts ==
  ASSUME NetBoxOK, ParentsArePorts(netbox), NEW w \in works, IsWork(w), KeepsPorts(w),
         Ready(w, works), IsNext(w), Resolves(w), w.op # "ModifyCable"
  PROVE  Accepts(w)
<1>0. TablesOK /\ InUse(ifs) = {i \in Ids : ifs[i] \in Interface}
  BY InterfacesInUse DEF NetBoxOK, TablesOK
<1>1. CASE w.op = "CreateInterface"
  BY <1>1, ExistsInUse DEF Accepts, Ready, KeepsPorts
<1>2. CASE w.op = "ModifyInterface"
  BY <1>2, ExistsInUse DEF Accepts, Ready
<1>3. CASE w.op = "DeleteInterface"
  <2>1. w.id \in InUse(ifs) /\ ifs[w.id].sub # 0
    BY <1>3 DEF Ready, KeepsPorts
  <2>2. w.id # None
    BY <1>0, <2>1, NoneAssumption
  <2>3. \A i \in InUse(ifs) : ifs[i].parent # w.id
    BY <2>1, <2>2, ParentsOfNetBox
  <2> QED BY <1>3, <2>1, <2>3, ExistsInUse DEF Accepts
<1>4. CASE w.op = "AssignIPAddress"
  <2>1. Destination(w) \in InUse(ifs)
    <3>1. CASE w.id # None
      BY <1>4, <3>1 DEF Ready, Destination
    <3>2. CASE w.id = None
      <4>1. Destination(w) = IdOf(w.port, w.sub) /\ IdOf(w.port, w.sub) # None
        BY <1>4, <3>2 DEF Resolves, Destination
      <4>2. IdOf(w.port, w.sub) \in Named(w.port, w.sub)
        BY <1>0, <4>1, IdOfName
      <4> QED BY <4>1, <4>2 DEF Named
    <3> QED BY <3>1, <3>2
  <2>2. \A ip \in InUse(ips) : ips[ip].addr = w.addr /\ ips[ip].vrf = w.vrf => ips[ip].anycast
    BY <1>4 DEF Ready, IsNext
  <2> QED BY <1>4, <2>1, <2>2, ExistsInUse DEF Accepts
<1>5. CASE w.op \in {"DeleteIPAddress", "ModifyIPAddress", "ReassignIPAddress"}
  BY <1>5, ExistsInUse DEF Accepts, Ready
<1> QED BY <1>1, <1>2, <1>3, <1>4, <1>5 DEF IsWork

\* The works that are left are still ready after another one.
LEMMA ReadyStays ==
  ASSUME NetBoxOK, NEW v \in works, IsWork(v), DoWork(v),
         NEW w \in works, v # w, Ready(w, works), Apart(v, w)
  PROVE  Ready(w, works)'
<1>1. /\ script' = script /\ works' = works \ {v}
      /\ Resolves(v) /\ Accepts(v) /\ Execute(v)
  BY DEF DoWork, rest
<1>2. InterfacesLast /\ InterfacesAfter(v) /\ AddressesAfter(v) /\ (v.op # "ModifyCable" => at' = at)
  BY <1>1, WorkTouches, WorkAfter
<1>3. cmd' = cmd /\ (Migrating' <=> Migrating)
  BY <1>1 DEF cmd, Migrating
<1>4. InUse(ifs) = {i \in Ids : ifs[i] \in Interface}
  BY InterfacesInUse DEF NetBoxOK, TablesOK
<1>5. CASE w.op \in {"DeleteIPAddress", "ModifyIPAddress", "ReassignIPAddress"}
  <2>1. w.id \in InUse(ips)'
    BY <1>2, <1>5 DEF Ready, Apart, AddressesAfter
  <2> QED BY <1>5, <2>1 DEF Ready
<1>6. CASE w.op \in {"ModifyInterface", "DeleteInterface"}
  <2>1. w.id \in InUse(ifs)'
    BY <1>2, <1>6 DEF Ready, Apart, InterfacesAfter
  <2> QED BY <1>6, <2>1 DEF Ready
<1>7. CASE w.op = "CreateInterface"
  <2>1. ASSUME NEW i \in InUse(ifs)', ifs'[i].port = w.port, ifs'[i].sub = w.sub
        PROVE  FALSE
    <3>1. CASE i \in InUse(ifs)
      <4>1. i \in Ids /\ ifs[i] # None
        BY <1>4, <3>1, NoneAssumption
      <4>2. ifs[i].port = w.port /\ ifs[i].sub = w.sub
        BY <1>2, <2>1, <4>1 DEF InterfacesLast
      <4> QED BY <1>7, <3>1, <4>2 DEF Ready, Named
    <3>2. CASE v.op = "CreateInterface" /\ ifs'[i].port = v.port /\ ifs'[i].sub = v.sub
      BY <1>7, <2>1, <3>2 DEF Apart
    <3> QED BY <1>2, <2>1, <3>1, <3>2 DEF InterfacesAfter
  <2>2. Named(w.port, w.sub)' = {}
    BY <2>1 DEF Named
  <2> QED BY <1>7, <2>2 DEF Ready
<1>8. CASE w.op = "AssignIPAddress"
  <2>1. w.id # None => w.id \in InUse(ifs)'
    BY <1>2, <1>8 DEF Ready, Apart, InterfacesAfter
  <2>2. ASSUME NEW ip \in InUse(ips)', ips'[ip].addr = w.addr, ips'[ip].vrf = w.vrf,
               ~ips'[ip].anycast
        PROVE  \E t \in works' : Anycasts(t, ip)' /\ Sooner(t, w)'
    <3>1. /\ ip \in InUse(ips) /\ ~(v.op = "ModifyIPAddress" /\ v.id = ip)
          /\ ips[ip].addr = w.addr /\ ips[ip].vrf = w.vrf /\ ips'[ip].anycast = ips[ip].anycast
      BY <1>2, <2>2 DEF AddressesAfter
    <3>2. PICK t \in works : Anycasts(t, ip) /\ Sooner(t, w)
      BY <1>8, <2>2, <3>1 DEF Ready
    <3>3. t # v
      BY <3>1, <3>2 DEF Anycasts
    <3> QED BY <1>1, <3>2, <3>3 DEF Anycasts, Sooner
  <2> QED BY <1>8, <2>1, <2>2 DEF Ready
<1>9. CASE w.op = "ModifyCable"
  <2>1. at' = at
    BY <1>2, <1>9 DEF Apart
  <2> QED BY <1>3, <1>9, <2>1 DEF Ready
<1>10. w.op \notin {"DeleteIPAddress", "ModifyIPAddress", "ReassignIPAddress", "ModifyInterface",
                    "DeleteInterface", "CreateInterface", "AssignIPAddress", "ModifyCable"}
           => Ready(w, works)'
  BY DEF Ready
<1> QED BY <1>5, <1>6, <1>7, <1>8, <1>9, <1>10

-----------------------------------------------------------------------------
\* Refused in time: the steps.

AllReady ==
    PlansOnce /\ pc = "do" =>
        /\ \A w \in works : Ready(w, works)
        /\ \A v, w \in works : v # w => Apart(v, w)

\* The cable goes first.
CableFirst ==
    Migrating /\ cmd.src # cmd.tgt /\ at[cmd.src] # None =>
        /\ netbox = was
        /\ pc = "do" => \E w \in works : w.op = "ModifyCable"

RefusedInv == Alone => AllReady /\ CableFirst /\ RefusedInTime

\* The cable is moved off the source.
LEMMA CableFirstStays ==
  ASSUME NetBoxOK, script \in Seq(Command) \ {<< >>}, NEW w \in works, IsWork(w), DoWork(w),
         AllReady, CableFirst
  PROVE  CableFirst'
<1>1. /\ script' = script /\ was' = was /\ pc = "do" /\ works' = works \ {w}
      /\ Resolves(w) /\ Accepts(w) /\ Execute(w) /\ IsNext(w)
  BY DEF DoWork, rest
<1>2. w.op # "ModifyCable" => at' = at
  BY <1>1, WorkAfter
<1>3. cmd' = cmd /\ (Migrating' <=> Migrating)
  BY <1>1 DEF cmd, Migrating
<1> SUFFICES ASSUME Migrating, cmd.src # cmd.tgt, at'[cmd.src] # None
             PROVE  FALSE
  BY <1>3 DEF CableFirst
<1>4. PlansOnce
  BY OneCommand DEF PlansOnce
<1>5. CASE w.op = "ModifyCable"
  <2>1. w.port = cmd.tgt /\ w.end = at[cmd.src]
    BY <1>1, <1>4, <1>5 DEF AllReady, Ready
  <2>2. at' = [t \in DOMAIN at |-> IF t = w.port THEN w.end ELSE IF at[t] = w.end THEN None ELSE at[t]]
    BY <1>1, <1>5 DEF Execute
  <2>3. cmd.src \in DOMAIN at
    BY CommandIs DEF NetBoxOK, TablesOK
  <2> QED BY <2>1, <2>2, <2>3
<1>6. CASE w.op # "ModifyCable"
  <2>1. PICK t \in works : t.op = "ModifyCable"
    BY <1>1, <1>2, <1>6 DEF CableFirst
  <2>2. Sooner(t, w)
    BY <1>1, <1>4, <1>6, <2>1 DEF AllReady, Apart
  <2> QED BY <1>1, <2>2 DEF IsNext
<1> QED BY <1>5, <1>6

LEMMA RefusedNow ==
  ASSUME NetBoxOK, PortsInv, NEW w \in works, IsWork(w), WorkFails(w), AllReady, CableFirst
  PROVE  RefusedInTime'
<1>1. /\ ifs' = ifs /\ ips' = ips /\ at' = at /\ script' = script /\ was' = was
      /\ pc = "do" /\ IsNext(w) /\ (pc' = "refused" => Resolves(w) /\ ~Accepts(w))
  BY DEF WorkFails, rest
<1>2. /\ cmd' = cmd /\ (Migrating' <=> Migrating) /\ (Zapping' <=> Zapping)
      /\ netbox' = netbox
  BY <1>1 DEF cmd, Migrating, Zapping, netbox
<1> SUFFICES ASSUME pc' = "refused", PlansOnce
             PROVE  Migrating /\ was.at[cmd.tgt] # None /\ netbox = was
  BY <1>1, <1>2 DEF RefusedInTime, PlansOnce
<1>3. Ready(w, works) /\ KeepsPorts(w) /\ ParentsArePorts(netbox)
  BY <1>1 DEF AllReady, PortsInv
<1>4. w.op = "ModifyCable"
  BY <1>1, <1>3, ReadyAccepts
<1>5. Migrating /\ w.port = cmd.tgt /\ w.end = at[cmd.src] /\ w.end \in CableEnds
  BY <1>3, <1>4 DEF Ready, IsWork
<1>6. at[w.port] \notin {None, w.end}
  BY <1>1, <1>4 DEF Accepts
<1>7. at[cmd.src] # None
  BY <1>5, NoneAssumption
<1>8. netbox = was
  BY <1>5, <1>6, <1>7 DEF CableFirst
<1> QED BY <1>5, <1>6, <1>8 DEF netbox

LEMMA NextRefusedInv ==
  ASSUME EndsDoNotClash
  PROVE  TypeInv /\ PortsInv /\ RefusedInv /\ [Next]_vars => RefusedInv'
<1> SUFFICES ASSUME TypeInv, PortsInv, RefusedInv, [Next]_vars, Alone'
             PROVE  (AllReady /\ CableFirst /\ RefusedInTime)'
  BY DEF RefusedInv
<1>0. /\ NetBoxOK /\ ScalarsOK /\ script \in Seq(Command) \ {<< >>}
      /\ edits \in Nat
      /\ \A w \in works : IsWork(w)
  BY DEF TypeInv, ScalarsOK
<1>a. edits' = edits => Alone /\ AllReady /\ CableFirst /\ RefusedInTime
  BY DEF Alone, RefusedInv
<1>b. ASSUME script' = script
      PROVE  /\ cmd' = cmd /\ (Migrating' <=> Migrating) /\ (Zapping' <=> Zapping)
             /\ PlansOnce' <=> PlansOnce
  BY <1>b DEF cmd, Migrating, Zapping, PlansOnce
<1>1. CASE Plan
  <2>1. /\ ifs' = ifs /\ ips' = ips /\ at' = at /\ script' = script /\ was' = was /\ edits' = edits
        /\ (pc' = "failed") \/ (pc' = "do" /\ ~Fails /\ works' = ThePlan)
    BY <1>1 DEF Plan, rest
  <2>2. RefusedInTime'
    BY <2>1 DEF RefusedInTime
  <2>3. ASSUME PlansOnce, pc' = "do", NEW w \in works'
        PROVE  Ready(w, works)' /\ \A v \in works' : v # w => Apart(v, w)'
    <3>1. Ready(w, ThePlan) /\ \A v \in works' : v # w => Apart(v, w)
      BY <1>0, <2>1, <2>3, PlanIsReady
    <3>2. InUse(ifs)' = InUse(ifs) /\ InUse(ips)' = InUse(ips)
      BY <2>1 DEF InUse, Exists
    <3>3. Named(w.port, w.sub)' = Named(w.port, w.sub)
      BY <2>1, <3>2 DEF Named
    <3>4. works' = ThePlan
      BY <2>1, <2>3
    <3>5. Ready(w, works)'
      BY <1>b, <2>1, <3>1, <3>2, <3>3, <3>4 DEF Ready, Anycasts, Sooner
    <3> QED BY <3>1, <3>5 DEF Apart, Sooner
  <2>4. AllReady'
    BY <1>b, <2>1, <2>3 DEF AllReady
  <2>5. ASSUME Migrating, at[cmd.src] # None, pc' = "do"
        PROVE  \E w \in works' : w.op = "ModifyCable"
    <3>1. ~MigrateFails(cmd.src, cmd.tgt) /\ works' = MigratePlan(cmd.src, cmd.tgt)
      BY <2>1, <2>5 DEF Fails, ThePlan, Zapping, Migrating, Cloning, Setting
    <3>2. ModifyCable(<<1>>, SourceEnd(cmd.src), cmd.tgt) \in MigratePlan(cmd.src, cmd.tgt)
      BY <2>5 DEF MigratePlan, MoveCable
    <3> QED BY <3>1, <3>2 DEF ModifyCable
  <2>6. netbox' = netbox
    BY <2>1 DEF netbox
  <2>7. CableFirst'
    BY <1>a, <1>b, <2>1, <2>5, <2>6 DEF CableFirst
  <2> QED BY <2>2, <2>4, <2>7
<1>2. ASSUME NEW w \in works, DoWork(w) PROVE (AllReady /\ CableFirst /\ RefusedInTime)'
  <2>1. /\ pc = "do" /\ pc' = "do" /\ script' = script /\ edits' = edits /\ works' = works \ {w}
    BY <1>2 DEF DoWork, rest
  <2>2. AllReady /\ CableFirst
    BY <1>a, <2>1
  <2>3. CableFirst'
    BY <1>0, <1>2, <2>2, CableFirstStays
  <2>4. ASSUME PlansOnce, NEW u \in works' PROVE Ready(u, works)' /\ \A v \in works' : v # u => Apart(v, u)'
    <3>1. u \in works /\ u # w /\ Ready(u, works) /\ Apart(w, u)
      BY <2>1, <2>2, <2>4 DEF AllReady
    <3>2. Ready(u, works)'
      BY <1>0, <1>2, <3>1, ReadyStays
    <3> QED BY <2>1, <2>2, <2>4, <3>2 DEF AllReady, Apart, Sooner
  <2>5. AllReady'
    BY <1>b, <2>1, <2>4 DEF AllReady
  <2> QED BY <2>1, <2>3, <2>5 DEF RefusedInTime
<1>3. ASSUME NEW w \in works, WorkFails(w) PROVE (AllReady /\ CableFirst /\ RefusedInTime)'
  <2>1. /\ pc' # "do" /\ script' = script /\ edits' = edits /\ was' = was /\ at' = at
        /\ netbox' = netbox
    BY <1>3 DEF WorkFails, rest, netbox
  <2>2. AllReady /\ CableFirst
    BY <1>a, <2>1
  <2>3. RefusedInTime'
    BY <1>0, <1>3, <2>2, RefusedNow
  <2>4. CableFirst' /\ AllReady'
    BY <1>b, <2>1, <2>2 DEF CableFirst, AllReady
  <2> QED BY <2>3, <2>4
<1>4. CASE Stop \/ Finish \/ RunAgain
  <2>1. /\ pc' \notin {"do", "refused"} /\ script' = script /\ edits' = edits /\ was' = was /\ at' = at
        /\ netbox' = netbox
    BY <1>4 DEF Stop, Finish, RunAgain, rest, netbox
  <2> QED BY <1>a, <1>b, <2>1 DEF CableFirst, AllReady, RefusedInTime
<1>5. CASE NextCommand
  <2>1. pc' = "plan" /\ was' = netbox /\ netbox' = netbox
    BY <1>5 DEF NextCommand, netbox
  <2> QED BY <2>1 DEF CableFirst, AllReady, RefusedInTime
<1>6. ASSUME NEW i, (\E ip : SomeoneAssigns(ip, i)) \/ SomeoneDeletes(i) PROVE FALSE
  <2>1. edits' = edits + 1
    BY <1>6 DEF SomeoneAssigns, SomeoneDeletes
  <2> QED BY <1>0, <2>1 DEF Alone
<1>7. CASE UNCHANGED vars
  <2>1. /\ ifs' = ifs /\ ips' = ips /\ at' = at /\ script' = script /\ pc' = pc /\ works' = works
        /\ edits' = edits /\ was' = was /\ netbox' = netbox
    BY <1>7 DEF vars, netbox
  <2>2. InUse(ifs)' = InUse(ifs) /\ InUse(ips)' = InUse(ips)
    BY <2>1 DEF InUse, Exists
  <2>3. \A w : Ready(w, works) => Ready(w, works)'
    <3>1. \A w : Named(w.port, w.sub)' = Named(w.port, w.sub)
      BY <2>1, <2>2 DEF Named
    <3> QED BY <1>b, <2>1, <2>2, <3>1 DEF Ready, Anycasts, Sooner
  <2>4. AllReady'
    BY <1>a, <1>b, <2>1, <2>3 DEF AllReady, Apart, Sooner
  <2> QED BY <1>a, <1>b, <2>1, <2>4 DEF CableFirst, RefusedInTime
<1> QED BY <1>1, <1>2, <1>3, <1>4, <1>5, <1>6, <1>7 DEF Next

\* As long as nobody else is at it, NetBox refuses no work of a plan, but for a port
\* that zap-interface is given twice and for a target that is on a cable of its own,
\* which is found out before anything is moved.
THEOREM NothingIsRefusedLate ==
  ASSUME NoGrandchildren, EndsDoNotClash
  PROVE  Spec => []RefusedInTime
<1>1. Init => RefusedInv
  BY DEF Init, RefusedInv, AllReady, CableFirst, RefusedInTime
<1>2. RefusedInv => RefusedInTime
  BY DEF RefusedInv, RefusedInTime
<1> QED
  BY <1>1, <1>2, TypeInvariance, PortsInvariance, NextRefusedInv, PTL DEF Spec
-----------------------------------------------------------------------------
\* Success means done.  For each command, beside the NetBox `was` it was given on:
\* what every run of it keeps, also the ones that stop (..Kept), and, while a run is
\* under way, what it has left (..Left): whatever is not yet as the command wants
\* it has a work that will make it so, and no work undoes what another one did.

WasValues(i) == [conf |-> was.ifs[i].conf, kind |-> was.ifs[i].kind, vrf |-> was.ifs[i].vrf]
Blanked(i) == [conf |-> Blank, kind |-> was.ifs[i].kind, vrf |-> None]

Target(port) == port \in Range(cmd.targets)

\* zap-interface: other ports are as they were, and no port loses its name or type.
ZapKept ==
    /\ at = was.at
    /\ \A i \in InUse(ifs) :
           /\ i \in InUse(was.ifs)
           /\ ifs[i].port = was.ifs[i].port /\ ifs[i].sub = was.ifs[i].sub
           /\ ifs[i].kind = was.ifs[i].kind
    /\ \A i \in InUse(was.ifs) :
           /\ was.ifs[i].sub = 0 => i \in InUse(ifs)
           /\ ~Target(was.ifs[i].port) => ifs[i] = was.ifs[i]
ZapLeft ==
    /\ \A port \in Range(cmd.targets) : Named(port, 0) # {}
    /\ \A w \in works :
           \/ w.op = "DeleteIPAddress"
           \/ /\ w.op = "DeleteInterface"
              /\ w.id \in InUse(ifs) => Target(ifs[w.id].port) /\ ifs[w.id].sub # 0
           \/ /\ w.op = "ModifyInterface" /\ w.id \in InUse(was.ifs) /\ w.values = Blanked(w.id)
              /\ Target(was.ifs[w.id].port)
    /\ \A i \in InUse(ifs) :
           /\ Target(ifs[i].port) /\ ifs[i].sub # 0 =>
                  \E w \in works : w.op = "DeleteInterface" /\ w.id = i
           /\ Target(ifs[i].port) /\ ifs[i].sub = 0 =>
                  \/ Values(i) = Blanked(i)
                  \/ \E w \in works : w.op = "ModifyInterface" /\ w.id = i
           /\ \A j \in InUse(ifs) : Target(ifs[j].port) /\ ifs[j].sub = 0 /\ ifs[i].parent = j =>
                  ifs[i].port = ifs[j].port /\ ifs[i].sub # 0
           /\ \A ip \in IpsOn(i) : Target(ifs[i].port) /\ ifs[i].sub = 0 =>
                  \E w \in works : w.op = "DeleteIPAddress" /\ w.id = ip
ZapInv == Zapping => ZapKept /\ (pc \in {"do", "done"} => ZapLeft)

\* migrate-interface: an interface of the source is still there, or the target has
\* one of its name; it is deleted only after the one it becomes has been created.
MigrateKept ==
    \A i \in WasOn(cmd.src) :
        \/ i \in InUse(ifs) /\ ifs[i] = was.ifs[i]
        \/ was.ifs[i].sub # 0 /\ Named(cmd.tgt, was.ifs[i].sub) # {}
MigrateLeft ==
    /\ \A w \in works :
           \/ w.op = "ModifyCable"
           \/ w.op = "ReassignIPAddress" /\ w.port = cmd.tgt
           \/ w.op = "CreateInterface" /\ w.port = cmd.tgt
           \/ /\ w.op = "ModifyInterface" /\ w.id \in Named(cmd.tgt, 0)
              /\ \A i \in WasOn(cmd.src) : was.ifs[i].sub = 0 => w.values = WasValues(i)
           \/ /\ w.op = "DeleteInterface" /\ w.id \in Ids /\ ifs[w.id] # None
              /\ w.id \in InUse(ifs) =>
                     /\ ifs[w.id].port = cmd.src /\ ifs[w.id].sub # 0
                     /\ \/ Named(cmd.tgt, ifs[w.id].sub) # {}
                        \/ \E v \in works : /\ v.op = "CreateInterface" /\ v.sub = ifs[w.id].sub
                                            /\ Sooner(v, w)
    /\ \A i \in WasOn(cmd.src) :
           \/ \E j \in Named(cmd.tgt, was.ifs[i].sub) : Values(j) = WasValues(i)
           \/ \E w \in works : /\ w.op = "CreateInterface" /\ w.sub = was.ifs[i].sub
                               /\ w.values = WasValues(i)
           \/ was.ifs[i].sub = 0 /\ \E w \in works : w.op = "ModifyInterface"
    /\ \A i \in InUse(ifs) : ifs[i].port = cmd.src =>
           /\ ifs[i].sub # 0 => \E w \in works : w.op = "DeleteInterface" /\ w.id = i
           /\ \A ip \in IpsOn(i) : \E w \in works : w.op = "ReassignIPAddress" /\ w.id = ip
MigrateInv ==
    Migrating /\ cmd.src # cmd.tgt => MigrateKept /\ (pc \in {"do", "done"} => MigrateLeft)

\* The cable of migrate-interface: where it was, or moved with its other end.
CableMoved == [was.at EXCEPT ![cmd.src] = None, ![cmd.tgt] = was.at[cmd.src]]
CableKept == at = was.at \/ at = CableMoved
CableLeft ==
    /\ \A w \in works : w.op = "ModifyCable" =>
           /\ w = ModifyCable(<<1>>, was.at[cmd.src], cmd.tgt)
           /\ at = was.at
           /\ \A t \in Ports \cup OtherEnds : at[t] = at[cmd.src] => t = cmd.src
    /\ at = CableMoved \/ \E w \in works : w.op = "ModifyCable"
CableInv ==
    Migrating /\ was.at[cmd.src] # None => CableKept /\ (pc \in {"do", "done"} => CableLeft)

\* clone-interface: the source stays as it was.
WasCloned(i) ==
    i \in WasOn(cmd.src) /\ (was.ifs[i].sub = 0 \/ was.ifs[i].conf # NotCloned)
CloneKept ==
    /\ \A i \in WasOn(cmd.src) : i \in InUse(ifs) /\ ifs[i] = was.ifs[i]
    /\ \A i \in InUse(ifs) : ifs[i].port = cmd.src => i \in WasOn(cmd.src)
    /\ \A ip \in InUse(ips) : ips[ip].on \in WasOn(cmd.src) =>
           ip \in InUse(was.ips) /\ was.ips[ip].on = ips[ip].on
SameAddress(ip, other) == ips[ip].addr = ips[other].addr /\ ips[ip].vrf = ips[other].vrf
CloneLeft ==
    /\ cmd.src = cmd.tgt => works = {}
    /\ \A w \in works :
           \/ w.op = "ModifyIPAddress"
           \/ w.op = "CreateInterface" /\ w.port = cmd.tgt
           \/ /\ w.op = "ModifyInterface"
              /\ \E i \in WasOn(cmd.src) :
                     w.values = WasValues(i) /\ w.id \in Named(cmd.tgt, was.ifs[i].sub)
           \/ /\ w.op = "AssignIPAddress" /\ w.port = cmd.tgt
              /\ w.id # None => w.id \in Named(cmd.tgt, w.sub)
              /\ \E i \in WasOn(cmd.src) : \E ip \in IpsOn(i) :
                     w.sub = was.ifs[i].sub /\ w.addr = ips[ip].addr /\ w.vrf = ips[ip].vrf
    /\ \A i \in InUse(was.ifs) : WasCloned(i) =>
           /\ \/ \E j \in Named(cmd.tgt, was.ifs[i].sub) : Values(j) = WasValues(i)
              \/ \E w \in works : /\ w.op = "CreateInterface" /\ w.sub = was.ifs[i].sub
                                  /\ w.values = WasValues(i)
              \/ \E w \in works : /\ w.op = "ModifyInterface"
                                  /\ w.id \in Named(cmd.tgt, was.ifs[i].sub)
           /\ \A ip \in IpsOn(i) :
                  \/ \E j \in Named(cmd.tgt, was.ifs[i].sub) :
                         \E other \in IpsOn(j) : SameAddress(ip, other)
                  \/ \E w \in works : /\ w.op = "AssignIPAddress" /\ w.sub = was.ifs[i].sub
                                      /\ w.addr = ips[ip].addr /\ w.vrf = ips[ip].vrf
           /\ \A j \in Named(cmd.tgt, was.ifs[i].sub) :
                  \A other \in IpsOn(j) : \E ip \in IpsOn(i) : SameAddress(ip, other)
CloneInv == Cloning => CloneKept /\ (pc \in {"do", "done"} => CloneLeft)

\* set-interface-type: nothing but the type of the targets' ports is set.
WasTarget(i) == i \in InUse(was.ifs) /\ Target(was.ifs[i].port) /\ was.ifs[i].sub = 0
Retype(r, kind) == [r EXCEPT !.kind = kind]
Retyped(i) == Retype(was.ifs[i], cmd.kind)

SetKept ==
    /\ ips = was.ips /\ at = was.at
    /\ \A i \in Ids : ifs[i] = was.ifs[i] \/ (WasTarget(i) /\ ifs[i] = Retyped(i))
SetLeft ==
    /\ \A w \in works :
           /\ w.op = "ModifyInterface" /\ WasTarget(w.id)
           /\ w.values = [conf |-> was.ifs[w.id].conf, kind |-> cmd.kind,
                          vrf |-> was.ifs[w.id].vrf]
    /\ \A i \in Ids : WasTarget(i) => ifs[i] = Retyped(i) \/ \E w \in works : w.id = i
SetInv == Setting => SetKept /\ (pc \in {"do", "done"} => SetLeft)

\* A command that begins has kept everything; what is left is as in its plan.
DoneInv == Alone => ZapInv /\ MigrateInv /\ CableInv /\ CloneInv /\ SetInv

-----------------------------------------------------------------------------
\* What a work does to what SuccessMeansDone is about.

InterfacesDone(w) ==
    /\ \A i \in InUse(ifs) :
           \/ /\ i \in InUse(ifs)'
              /\ ifs'[i].port = ifs[i].port /\ ifs'[i].sub = ifs[i].sub
              /\ ifs'[i].parent = ifs[i].parent
              /\ \/ ifs'[i] = ifs[i]
                 \/ w.op = "ModifyInterface" /\ w.id = i
           \/ w.op = "DeleteInterface" /\ w.id = i
    /\ \A i \in InUse(ifs)' :
           \/ i \in InUse(ifs)
           \/ /\ w.op = "CreateInterface" /\ ifs'[i].port = w.port /\ ifs'[i].sub = w.sub
              /\ Values(i)' = w.values
    /\ \A i \in Ids : i \in InUse(ifs) \/ ifs'[i] = ifs[i] \/ w.op = "CreateInterface"
    /\ w.op = "CreateInterface" => \E i \in InUse(ifs)' : i \notin InUse(ifs)
    /\ w.op = "ModifyInterface" => w.id \in InUse(ifs) /\ Values(w.id)' = w.values
    /\ w.op = "DeleteInterface" => w.id \in InUse(ifs) /\ w.id \notin InUse(ifs)'
AddressesDone(w) ==
    /\ \A ip \in InUse(ips) :
           \/ /\ ip \in InUse(ips)'
              /\ ips'[ip].addr = ips[ip].addr /\ ips'[ip].vrf = ips[ip].vrf
              /\ \/ ips'[ip].on = ips[ip].on
                 \/ w.op = "DeleteInterface" /\ ips'[ip].on = None
                 \/ w.op = "ReassignIPAddress" /\ w.id = ip
           \/ w.op = "DeleteIPAddress" /\ w.id = ip
    /\ \A ip \in InUse(ips)' :
           \/ ip \in InUse(ips)
           \/ /\ w.op = "AssignIPAddress" /\ ips'[ip].addr = w.addr /\ ips'[ip].vrf = w.vrf
              /\ ips'[ip].on = Destination(w) /\ Destination(w) \in InUse(ifs)
    /\ w.op = "AssignIPAddress" => \E ip \in InUse(ips)' : ip \notin InUse(ips)
    /\ w.op = "ReassignIPAddress" =>
           w.id \in InUse(ips) /\ ips'[w.id].on \in Named(w.port, w.sub)
    /\ w.op = "DeleteIPAddress" => w.id \notin InUse(ips)'

\* What is read again is the same.
LEMMA SameReads ==
  ASSUME ifs' = ifs, ips' = ips
  PROVE  /\ InUse(ifs)' = InUse(ifs) /\ InUse(ips)' = InUse(ips)
         /\ \A port, sub : Named(port, sub)' = Named(port, sub)
         /\ \A i : IpsOn(i)' = IpsOn(i) /\ Values(i)' = Values(i)
  BY DEF InUse, Exists, Named, IpsOn, Values

LEMMA WorkDoes ==
  ASSUME NetBoxOK, NEW w, IsWork(w), Resolves(w), Accepts(w), Execute(w)
  PROVE  InterfacesDone(w) /\ AddressesDone(w)
<1>0. TablesOK
  BY DEF NetBoxOK
<1>a. InUse(ifs) = {i \in Ids : ifs[i] \in Interface} /\ InUse(ips) = {ip \in Ips : ips[ip] \in Address}
  BY <1>0, InterfacesInUse, AddressesInUse DEF TablesOK
<1>s. ifs' = ifs /\ w.op \notin {"CreateInterface", "ModifyInterface", "DeleteInterface"}
          => InterfacesDone(w)
  BY SameReads DEF InterfacesDone, InUse, Exists
<1>t. /\ ips' = ips
      /\ w.op \notin {"AssignIPAddress", "ReassignIPAddress", "DeleteIPAddress"}
      => AddressesDone(w)
  BY DEF AddressesDone, InUse, Exists
<1>1. CASE CableMoves(w)
  BY <1>1, <1>s, <1>t DEF CableMoves
<1>2. ASSUME NEW i \in Ids, Creates(w, i) PROVE InterfacesDone(w) /\ AddressesDone(w)
  <2>1. /\ i \notin InUse(ifs) /\ InUse(ifs)' = InUse(ifs) \cup {i} /\ ips' = ips
        /\ \A j \in InUse(ifs) : ifs'[j] = ifs[j]
        /\ ifs'[i].port = w.port /\ ifs'[i].sub = w.sub /\ Values(i)' = w.values
    BY <1>0, <1>2, AfterCreates
  <2>2. w.op = "CreateInterface"
    BY <1>2 DEF Creates
  <2>3. InterfacesDone(w)
    BY <2>1, <2>2 DEF InterfacesDone
  <2> QED BY <1>t, <2>1, <2>2, <2>3
<1>3. CASE Modifies(w)
  <2>1. /\ SameInterfaces /\ ips' = ips /\ Values(w.id)' = w.values
        /\ \A i \in InUse(ifs) : i # w.id => ifs'[i] = ifs[i]
    BY <1>0, <1>3, AfterModifies
  <2>2. w.op = "ModifyInterface" /\ w.id \in InUse(ifs)
    BY <1>3 DEF Modifies
  <2>3. \A i \in Ids : i # w.id => ifs'[i] = ifs[i]
    BY <1>0, <1>3 DEF Modifies, TablesOK
  <2>4. InterfacesDone(w)
    BY <2>1, <2>2, <2>3 DEF InterfacesDone, SameInterfaces
  <2> QED BY <1>t, <2>1, <2>2, <2>4
<1>4. CASE Deletes(w)
  <2>1. /\ InUse(ifs)' = InUse(ifs) \ {w.id}
        /\ \A i \in Ids : i # w.id => ifs'[i] = ifs[i]
        /\ InUse(ips)' = InUse(ips) /\ SameRecords(InUse(ips))
        /\ \A ip \in InUse(ips) : ips'[ip].on = IF ips[ip].on = w.id THEN None ELSE ips[ip].on
    BY <1>0, <1>4, AfterDeletes
  <2>2. w.op = "DeleteInterface" /\ w.id \in InUse(ifs)
    BY <1>4 DEF Deletes
  <2>3. InterfacesDone(w)
    BY <1>a, <2>1, <2>2 DEF InterfacesDone
  <2>4. AddressesDone(w)
    BY <2>1, <2>2 DEF AddressesDone, SameRecords
  <2> QED BY <2>3, <2>4
<1>5. CASE DeletesIp(w)
  <2>1. /\ ifs' = ifs /\ InUse(ips)' = InUse(ips) \ {w.id}
        /\ \A ip \in Ips : ip # w.id => ips'[ip] = ips[ip]
    BY <1>0, <1>5, AfterDeletesIp
  <2>2. w.op = "DeleteIPAddress"
    BY <1>5 DEF DeletesIp
  <2>3. AddressesDone(w)
    BY <1>a, <2>1, <2>2 DEF AddressesDone
  <2> QED BY <1>s, <2>1, <2>2, <2>3
<1>6. CASE MakesAnycast(w)
  <2>1. /\ ifs' = ifs /\ InUse(ips)' = InUse(ips) /\ SameRecords(InUse(ips))
        /\ \A ip \in InUse(ips) : ips'[ip].on = ips[ip].on
    BY <1>0, <1>6, AfterMakesAnycast
  <2>2. w.op = "ModifyIPAddress"
    BY <1>6 DEF MakesAnycast
  <2>3. AddressesDone(w)
    BY <2>1, <2>2 DEF AddressesDone, SameRecords
  <2> QED BY <1>s, <2>1, <2>2, <2>3
<1>7. CASE Reassigns(w)
  <2>1. /\ ifs' = ifs /\ InUse(ips)' = InUse(ips) /\ SameRecords(InUse(ips))
        /\ \A ip \in InUse(ips) : ip # w.id => ips'[ip] = ips[ip]
        /\ ips'[w.id].on \in Named(w.port, w.sub)
    BY <1>0, <1>7, AfterReassigns
  <2>2. w.op = "ReassignIPAddress" /\ w.id \in InUse(ips)
    BY <1>7 DEF Reassigns
  <2>3. AddressesDone(w)
    BY <2>1, <2>2 DEF AddressesDone, SameRecords
  <2> QED BY <1>s, <2>1, <2>2, <2>3
<1>8. ASSUME NEW new \in Ips, Assigns(w, new) PROVE InterfacesDone(w) /\ AddressesDone(w)
  <2>1. /\ ifs' = ifs /\ new \notin InUse(ips) /\ InUse(ips)' = InUse(ips) \cup {new}
        /\ \A other \in InUse(ips) : ips'[other] = ips[other]
        /\ ips'[new] = [addr |-> w.addr, on |-> Destination(w), anycast |-> TRUE,
                        vrf |-> w.vrf]
    BY <1>0, <1>8, AfterAssigns
  <2>2. w.op = "AssignIPAddress" /\ Destination(w) \in InUse(ifs)
    BY <1>8 DEF Assigns
  <2>3. ips'[new].addr = w.addr /\ ips'[new].on = Destination(w) /\ ips'[new].vrf = w.vrf
    BY <2>1
  <2>4. AddressesDone(w)
    BY <2>1, <2>2, <2>3 DEF AddressesDone
  <2> QED BY <1>s, <2>1, <2>2, <2>4
<1> QED
  BY <1>0, <1>1, <1>2, <1>3, <1>4, <1>5, <1>6, <1>7, <1>8, WorkDone

\* The interfaces of a NetBox that was.
LEMMA WasInUse ==
  ASSUME IsNetBox(was)
  PROVE  /\ InUse(was.ifs) = {i \in Ids : was.ifs[i] \in Interface}
         /\ InUse(was.ips) = {ip \in Ips : was.ips[ip] \in Address}
         /\ was.ifs \in [Ids -> Interface \cup {None, Gone}]
         /\ was.ips \in [Ips -> Address \cup {None, Gone}]
  BY InterfacesInUse, AddressesInUse DEF IsNetBox

LEMMA SameWas ==
  ASSUME script' = script, was' = was
  PROVE  /\ InUse(was.ifs)' = InUse(was.ifs) /\ InUse(was.ips)' = InUse(was.ips)
         /\ \A port : WasOn(port)' = WasOn(port) /\ (Target(port)' <=> Target(port))
         /\ \A i : WasValues(i)' = WasValues(i) /\ Blanked(i)' = Blanked(i)
         /\ \A i : WasCloned(i)' <=> WasCloned(i)
         /\ CableMoved' = CableMoved
  BY DEF InUse, Exists, WasOn, Target, WasValues, Blanked, WasCloned, CableMoved, cmd

-----------------------------------------------------------------------------
\* set-interface-type: as it begins, as it goes on, when it is done.

LEMMA RetypedIs ==
  ASSUME NEW r \in Interface, NEW kind \in Kinds
  PROVE  /\ Retype(r, kind) \in Interface
         /\ Retype(r, kind).kind = kind
         /\ Retype(r, kind).port = r.port /\ Retype(r, kind).sub = r.sub
         /\ Retype(r, kind).conf = r.conf /\ Retype(r, kind).vrf = r.vrf
         /\ r.kind = kind => Retype(r, kind) = r
         /\ Configure(r, [conf |-> r.conf, kind |-> kind, vrf |-> r.vrf]) = Retype(r, kind)
         /\ Configure(Retype(r, kind), [conf |-> r.conf, kind |-> kind, vrf |-> r.vrf])
                = Retype(r, kind)
  BY DEF Interface, Configure, Retype

LEMMA SetBegun ==
  ASSUME NetBoxOK, IsNetBox(was), Setting, script \in Seq(Command) \ {<< >>}, ~Fails,
         SetKept, ifs' = ifs, was' = was, script' = script, works' = ThePlan
  PROVE  SetLeft'
<1>0. /\ TablesOK /\ NamesAreUnique
      /\ cmd.targets \in Seq(Ports) /\ cmd.kind \in Kinds
      /\ ~SetTypeFails(cmd.targets) /\ works' = SetTypePlan(cmd.targets, cmd.kind)
      /\ cmd' = cmd
  BY CommandIs DEF NetBoxOK, Fails, ThePlan, Zapping, Migrating, Cloning, Setting, cmd
<1>1. InUse(ifs) = {i \in Ids : ifs[i] \in Interface}
  BY <1>0, InterfacesInUse DEF TablesOK
<1>2. InUse(was.ifs) = {i \in Ids : was.ifs[i] \in Interface}
  BY WasInUse
<1>3. ASSUME NEW i \in InUse(was.ifs)
      PROVE  /\ Retyped(i) \in Interface /\ Retyped(i).kind = cmd.kind
             /\ Retyped(i).port = was.ifs[i].port /\ Retyped(i).sub = was.ifs[i].sub
             /\ Retyped(i).conf = was.ifs[i].conf /\ Retyped(i).vrf = was.ifs[i].vrf
             /\ was.ifs[i].kind = cmd.kind => Retyped(i) = was.ifs[i]
  BY <1>0, <1>2, RetypedIs DEF Retyped
<1>4. ASSUME NEW w \in works'
      PROVE  /\ w.op = "ModifyInterface" /\ WasTarget(w.id)
             /\ w.values = [conf |-> was.ifs[w.id].conf, kind |-> cmd.kind,
                            vrf |-> was.ifs[w.id].vrf]
  <2>1. PICK k \in DOMAIN cmd.targets, i \in InUse(ifs) :
           ifs[i].port = cmd.targets[k] /\ ifs[i].sub = 0 /\ SetTypeWork(w, k, i, cmd.kind)
    BY <1>0, <1>4, SetTypePlanned
  <2>2. w.op = "ModifyInterface" /\ w.id = i /\ w.values = RetypedValues(i, cmd.kind)
    BY <2>1 DEF SetTypeWork, ModifyInterface
  <2>3. ifs[i] = was.ifs[i] \/ (i \in InUse(was.ifs) /\ ifs[i] = Retyped(i))
    BY <1>1 DEF SetKept, WasTarget
  <2>4. /\ i \in InUse(was.ifs)
        /\ ifs[i].port = was.ifs[i].port /\ ifs[i].sub = was.ifs[i].sub
        /\ ifs[i].conf = was.ifs[i].conf /\ ifs[i].vrf = was.ifs[i].vrf
    BY <1>1, <1>2, <1>3, <2>3
  <2>5. ifs[i].port \in Range(cmd.targets)
    BY <2>1 DEF Range
  <2> QED BY <2>1, <2>2, <2>4, <2>5 DEF WasTarget, Target, RetypedValues
<1>5. ASSUME NEW i \in Ids, WasTarget(i), ifs[i] # Retyped(i)
      PROVE  \E w \in works' : w.id = i
  <2>1. i \in InUse(was.ifs) /\ ifs[i] = was.ifs[i] /\ i \in InUse(ifs)
    BY <1>1, <1>2, <1>5 DEF SetKept, WasTarget
  <2>2. ifs[i].kind # cmd.kind
    BY <1>3, <1>5, <2>1
  <2>3. PICK k \in DOMAIN cmd.targets : cmd.targets[k] = ifs[i].port
    BY <1>5, <2>1 DEF WasTarget, Target, Range
  <2>4. IdOf(cmd.targets[k], 0) = i
    BY <1>0, <1>5, <2>1, <2>3, IdOfInUse DEF WasTarget
  <2>5. ModifyInterface(<<k>>, i, RetypedValues(i, cmd.kind)) \in SetTypeOne(k, cmd.targets[k], cmd.kind)
    BY <2>2, <2>4 DEF SetTypeOne
  <2>6. ModifyInterface(<<k>>, i, RetypedValues(i, cmd.kind)) \in works'
    BY <1>0, <2>3, <2>5 DEF SetTypePlan
  <2> QED BY <2>6 DEF ModifyInterface
<1> QED BY <1>0, <1>4, <1>5 DEF SetLeft, WasTarget, Target, Retyped

LEMMA SetGoesOn ==
  ASSUME NetBoxOK, IsNetBox(was), Setting, script \in Seq(Command) \ {<< >>}, SetKept, SetLeft,
         NEW w \in works, IsWork(w), DoWork(w)
  PROVE  SetKept' /\ SetLeft'
<1>1. /\ script' = script /\ was' = was /\ works' = works \ {w}
      /\ Resolves(w) /\ Accepts(w) /\ Execute(w)
  BY DEF DoWork, rest
<1>2. /\ cmd' = cmd /\ cmd.kind \in Kinds
  BY <1>1, CommandIs DEF cmd
<1>3. /\ w.op = "ModifyInterface" /\ WasTarget(w.id)
      /\ w.values = [conf |-> was.ifs[w.id].conf, kind |-> cmd.kind, vrf |-> was.ifs[w.id].vrf]
  BY DEF SetLeft
<1>4. /\ ifs' = [ifs EXCEPT ![w.id] = Configure(@, w.values)] /\ ips' = ips /\ at' = at
  BY <1>1, <1>3 DEF Execute
<1>5. w.id \in Ids /\ was.ifs[w.id] \in Interface
  BY <1>3, WasInUse DEF WasTarget
<1>6. ifs[w.id] \in {was.ifs[w.id], Retyped(w.id)}
  BY <1>5 DEF SetKept
<1>7. Configure(ifs[w.id], w.values) = Retyped(w.id)
  BY <1>2, <1>3, <1>5, <1>6, RetypedIs DEF Retyped
<1>8. ifs'[w.id] = Retyped(w.id) /\ \A i \in Ids : i # w.id => ifs'[i] = ifs[i]
  BY <1>4, <1>5, <1>7 DEF NetBoxOK, TablesOK
<1>9. \A i : (WasTarget(i)' <=> WasTarget(i)) /\ Retyped(i)' = Retyped(i)
  BY <1>1, <1>2 DEF WasTarget, Target, Retyped
<1>10. SetKept'
  BY <1>1, <1>3, <1>4, <1>8, <1>9 DEF SetKept
<1>11. SetLeft'
  BY <1>1, <1>2, <1>8, <1>9 DEF SetLeft
<1> QED BY <1>10, <1>11

LEMMA SetIsDone ==
  ASSUME IsNetBox(was), SetKept, SetLeft, works = {}
  PROVE  TypeIsSet
<1>1. \A i \in Ids : WasTarget(i) => ifs[i] = Retyped(i)
  BY DEF SetLeft
<1>2. \A i \in InUse(was.ifs) : i \in Ids
  BY WasInUse
<1> QED BY <1>1, <1>2 DEF SetKept, TypeIsSet, WasTarget, Target, Retyped, Retype

-----------------------------------------------------------------------------
\* zap-interface: as it begins, as it goes on, when it is done.

LEMMA ZapBegun ==
  ASSUME NetBoxOK, IsNetBox(was), Zapping, script \in Seq(Command) \ {<< >>}, ~Fails,
         ZapKept, ifs' = ifs, ips' = ips, was' = was, script' = script, works' = ThePlan
  PROVE  ZapLeft'
<1>0. /\ TablesOK /\ NamesAreUnique /\ cmd' = cmd
      /\ cmd.targets \in Seq(Ports) /\ ~ZapFails(cmd.targets) /\ works' = ZapPlan(cmd.targets)
  BY CommandIs DEF NetBoxOK, Fails, ThePlan, Zapping, Migrating, Cloning, Setting, cmd
<1>1. \A port \in Range(cmd.targets) : TreeIsSound(port)
  BY <1>0 DEF ZapFails, Range
<1>2. \A port \in Range(cmd.targets) : Named(port, 0) # {}
  BY <1>0, <1>1, IdOfName DEF TreeIsSound
<1>3. \A w : w \in works' <=> \E k \in DOMAIN cmd.targets, i \in InUse(ifs) :
                                  ifs[i].port = cmd.targets[k] /\ ZapWork(w, k, i)
  BY <1>0, ZapPlanned
<1>4. \A i \in InUse(ifs) : Target(ifs[i].port) => \E k \in DOMAIN cmd.targets : ifs[i].port = cmd.targets[k]
  BY DEF Target, Range
<1>5. \A i \in InUse(ifs) : i \in InUse(was.ifs) /\ ZappedValues(i) = Blanked(i)
                            /\ ifs[i].port = was.ifs[i].port
  BY DEF ZapKept, ZappedValues, Blanked
<1>6. ASSUME NEW w \in works'
      PROVE  \/ w.op = "DeleteIPAddress"
             \/ /\ w.op = "DeleteInterface"
                /\ w.id \in InUse(ifs) => Target(ifs[w.id].port) /\ ifs[w.id].sub # 0
             \/ /\ w.op = "ModifyInterface" /\ w.id \in InUse(was.ifs) /\ w.values = Blanked(w.id)
                /\ Target(was.ifs[w.id].port)
  <2>1. PICK k \in DOMAIN cmd.targets, i \in InUse(ifs) :
           ifs[i].port = cmd.targets[k] /\ ZapWork(w, k, i)
    BY <1>3, <1>6
  <2>2. Target(ifs[i].port)
    BY <2>1 DEF Target, Range
  <2> QED BY <1>5, <2>1, <2>2 DEF ZapWork, DeleteIPAddress, DeleteInterface, ModifyInterface
<1>7. ASSUME NEW i \in InUse(ifs), Target(ifs[i].port)
      PROVE  /\ ifs[i].sub # 0 => \E w \in works' : w.op = "DeleteInterface" /\ w.id = i
             /\ ifs[i].sub = 0 =>
                  \/ Values(i) = Blanked(i)
                  \/ \E w \in works' : w.op = "ModifyInterface" /\ w.id = i
             /\ \A ip \in IpsOn(i) : ifs[i].sub = 0 =>
                  \E w \in works' : w.op = "DeleteIPAddress" /\ w.id = ip
  <2>1. PICK k \in DOMAIN cmd.targets : ifs[i].port = cmd.targets[k]
    BY <1>4, <1>7
  <2>2. \A w : ZapWork(w, k, i) => w \in works'
    BY <1>3, <2>1
  <2>3. CASE ifs[i].sub # 0
    <3> DEFINE w == DeleteInterface(<<k, 1, ifs[i].sub, 2>>, i)
    <3>1. w \in works'
      BY <2>2, <2>3 DEF ZapWork
    <3> QED BY <2>3, <3>1 DEF DeleteInterface
  <2>4. CASE ifs[i].sub = 0
    <3>1. ASSUME Values(i) # ZappedValues(i)
          PROVE  \E w \in works' : w.op = "ModifyInterface" /\ w.id = i
      <4> DEFINE w == ModifyInterface(<<k, 2, ifs[i].sub, 2>>, i, ZappedValues(i))
      <4>1. w \in works'
        BY <2>2, <2>4, <3>1 DEF ZapWork
      <4> QED BY <4>1 DEF ModifyInterface
    <3>2. ASSUME NEW ip \in IpsOn(i)
          PROVE  \E w \in works' : w.op = "DeleteIPAddress" /\ w.id = ip
      <4> DEFINE w == DeleteIPAddress(<<k, 2, ifs[i].sub, 1, ip>>, ip)
      <4>1. w \in works'
        BY <2>2, <2>4 DEF ZapWork
      <4> QED BY <4>1 DEF DeleteIPAddress
    <3> QED BY <1>5, <2>4, <3>1, <3>2
  <2> QED BY <2>3, <2>4
<1>8. ASSUME NEW i \in InUse(ifs), NEW j \in InUse(ifs), Target(ifs[j].port), ifs[j].sub = 0,
             ifs[i].parent = j
      PROVE  ifs[i].port = ifs[j].port /\ ifs[i].sub # 0
  <2>1. TreeIsSound(ifs[j].port)
    BY <1>1, <1>8 DEF Target
  <2>2. IdOf(ifs[j].port, 0) = j
    BY <1>0, <1>8, IdOfInUse
  <2>3. i \in ByParent(ifs[j].port)
    BY <1>8, <2>2 DEF ByParent
  <2> QED BY <1>0, <2>1, <2>3, SoundTree
<1>9. /\ \A port : (Target(port)' <=> Target(port)) /\ Named(port, 0)' = Named(port, 0)
      /\ \A i : Blanked(i)' = Blanked(i) /\ Values(i)' = Values(i) /\ IpsOn(i)' = IpsOn(i)
      /\ InUse(ifs)' = InUse(ifs) /\ InUse(was.ifs)' = InUse(was.ifs)
  BY SameReads, SameWas
<1> QED BY <1>0, <1>2, <1>6, <1>7, <1>8, <1>9 DEF ZapLeft

LEMMA ZapGoesOn ==
  ASSUME NetBoxOK, IsNetBox(was), Zapping, script \in Seq(Command) \ {<< >>},
         ZapKept, ZapLeft, NEW w \in works, IsWork(w), DoWork(w)
  PROVE  ZapKept' /\ ZapLeft'
<1>0. /\ script' = script /\ was' = was /\ works' = works \ {w} /\ cmd' = cmd
      /\ Resolves(w) /\ Accepts(w) /\ Execute(w)
  BY DEF DoWork, rest, cmd
<1>1. /\ \A port : Target(port)' <=> Target(port)
      /\ \A i : Blanked(i)' = Blanked(i)
      /\ InUse(was.ifs)' = InUse(was.ifs)
  BY <1>0, SameWas
<1>2. /\ InUse(ifs) \subseteq Ids /\ InUse(was.ifs) \subseteq Ids
      /\ \A i \in InUse(ifs), j \in InUse(ifs) : ifs[i].port = ifs[j].port /\ ifs[i].sub = ifs[j].sub => i = j
  BY InterfacesInUse, WasInUse DEF NetBoxOK, TablesOK, NamesAreUnique
<1>3. \/ w.op = "DeleteIPAddress"
      \/ /\ w.op = "DeleteInterface"
         /\ w.id \in InUse(ifs) => Target(ifs[w.id].port) /\ ifs[w.id].sub # 0
      \/ /\ w.op = "ModifyInterface" /\ w.id \in InUse(was.ifs) /\ w.values = Blanked(w.id)
         /\ Target(was.ifs[w.id].port)
  BY DEF ZapLeft
<1>4. /\ at' = at /\ InUse(ifs)' \subseteq InUse(ifs) /\ InUse(ips)' \subseteq InUse(ips)
      /\ \A i \in InUse(ifs)' :
             /\ ifs'[i].port = ifs[i].port /\ ifs'[i].sub = ifs[i].sub
             /\ ifs'[i].parent = ifs[i].parent
             /\ \/ ifs'[i] = ifs[i]
                \/ w.op = "ModifyInterface" /\ w.id = i /\ Values(i)' = w.values
      /\ \A i \in InUse(ifs) : i \in InUse(ifs)' \/ (w.op = "DeleteInterface" /\ w.id = i)
      /\ \A i \in Ids \ InUse(ifs) : ifs'[i] = ifs[i]
      /\ w.op = "DeleteInterface" => w.id \in InUse(ifs) /\ w.id \notin InUse(ifs)'
      /\ w.op = "ModifyInterface" => w.id \in InUse(ifs) /\ Values(w.id)' = w.values
      /\ w.op = "DeleteIPAddress" => w.id \notin InUse(ips)'
      /\ \A ip \in InUse(ips)' : ips'[ip].on = ips[ip].on \/ ips'[ip].on = None
  <2>1. InterfacesDone(w) /\ AddressesDone(w) /\ at' = at
    BY <1>0, <1>3, WorkDoes, WorkAfter
  <2>2. w.op \in {"DeleteIPAddress", "DeleteInterface", "ModifyInterface"}
    BY <1>3
  <2>3. InUse(ifs)' \subseteq InUse(ifs) /\ InUse(ips)' \subseteq InUse(ips)
    BY <2>1, <2>2 DEF InterfacesDone, AddressesDone
  <2> QED BY <2>1, <2>2, <2>3 DEF InterfacesDone, AddressesDone
<1>5. ZapKept'
  <2>1. ASSUME NEW i \in InUse(ifs)'
        PROVE  /\ i \in InUse(was.ifs) /\ ifs'[i].port = was.ifs[i].port
               /\ ifs'[i].sub = was.ifs[i].sub /\ ifs'[i].kind = was.ifs[i].kind
    <3>1. /\ i \in InUse(was.ifs) /\ ifs'[i].port = was.ifs[i].port
          /\ ifs'[i].sub = was.ifs[i].sub /\ ifs[i].kind = was.ifs[i].kind
      BY <1>4, <2>1 DEF ZapKept
    <3>2. CASE ifs'[i] = ifs[i]
      BY <3>1, <3>2
    <3>3. CASE Values(i)' = Blanked(i)
      BY <3>1, <3>3 DEF Values, Blanked
    <3> QED BY <1>3, <1>4, <2>1, <3>2, <3>3
  <2>2. ASSUME NEW i \in InUse(was.ifs)
        PROVE  /\ was.ifs[i].sub = 0 => i \in InUse(ifs)'
               /\ ~Target(was.ifs[i].port) => ifs'[i] = was.ifs[i]
    <3>1. was.ifs[i].sub = 0 => i \in InUse(ifs)'
      BY <1>3, <1>4, <2>2 DEF ZapKept
    <3>2. ASSUME ~Target(was.ifs[i].port) PROVE ifs'[i] = was.ifs[i]
      BY <1>2, <1>3, <1>4, <2>2, <3>2 DEF ZapKept
    <3> QED BY <3>1, <3>2
  <2> QED BY <1>0, <1>1, <1>4, <2>1, <2>2 DEF ZapKept
<1>6. \A port \in Range(cmd.targets) : Named(port, 0)' # {}
  <2> TAKE port \in Range(cmd.targets)
  <2>1. PICK i \in InUse(ifs) : ifs[i].port = port /\ ifs[i].sub = 0
    BY DEF ZapLeft, Named
  <2>2. i \in InUse(ifs)' /\ ifs'[i].port = port /\ ifs'[i].sub = 0
    BY <1>3, <1>4, <2>1
  <2> QED BY <2>2 DEF Named
<1>7. ASSUME NEW v \in works'
      PROVE  \/ v.op = "DeleteIPAddress"
             \/ /\ v.op = "DeleteInterface"
                /\ v.id \in InUse(ifs)' => Target(ifs'[v.id].port) /\ ifs'[v.id].sub # 0
             \/ /\ v.op = "ModifyInterface" /\ v.id \in InUse(was.ifs) /\ v.values = Blanked(v.id)
                /\ Target(was.ifs[v.id].port)
  BY <1>0, <1>4, <1>7 DEF ZapLeft
<1>8. ASSUME NEW i \in InUse(ifs)'
      PROVE  /\ Target(ifs'[i].port) /\ ifs'[i].sub # 0 =>
                    \E v \in works' : v.op = "DeleteInterface" /\ v.id = i
             /\ Target(ifs'[i].port) /\ ifs'[i].sub = 0 =>
                    \/ Values(i)' = Blanked(i)
                    \/ \E v \in works' : v.op = "ModifyInterface" /\ v.id = i
             /\ \A j \in InUse(ifs)' :
                    Target(ifs'[j].port) /\ ifs'[j].sub = 0 /\ ifs'[i].parent = j =>
                        ifs'[i].port = ifs'[j].port /\ ifs'[i].sub # 0
             /\ \A ip \in IpsOn(i)' : Target(ifs'[i].port) /\ ifs'[i].sub = 0 =>
                    \E v \in works' : v.op = "DeleteIPAddress" /\ v.id = ip
  <2>1. i \in InUse(ifs) /\ ifs'[i].port = ifs[i].port /\ ifs'[i].sub = ifs[i].sub
    BY <1>4, <1>8
  <2>2. ASSUME Target(ifs[i].port), ifs[i].sub # 0
        PROVE  \E v \in works' : v.op = "DeleteInterface" /\ v.id = i
    <3>1. PICK v \in works : v.op = "DeleteInterface" /\ v.id = i
      BY <2>1, <2>2 DEF ZapLeft
    <3>2. v # w
      BY <1>4, <1>8, <3>1
    <3> QED BY <1>0, <3>1, <3>2
  <2>3. ASSUME Target(ifs[i].port), ifs[i].sub = 0
        PROVE  \/ Values(i)' = Blanked(i)
               \/ \E v \in works' : v.op = "ModifyInterface" /\ v.id = i
    <3>1. CASE w.op = "ModifyInterface" /\ w.id = i
      BY <1>3, <1>4, <3>1
    <3>2. CASE ~(w.op = "ModifyInterface" /\ w.id = i)
      <4>1. Values(i)' = Values(i)
        BY <1>4, <1>8, <3>2 DEF Values
      <4>2. \/ Values(i) = Blanked(i)
            \/ \E v \in works : v.op = "ModifyInterface" /\ v.id = i
        BY <2>1, <2>3 DEF ZapLeft
      <4> QED BY <1>0, <3>2, <4>1, <4>2
    <3> QED BY <3>1, <3>2
  <2>4. ASSUME NEW j \in InUse(ifs)', Target(ifs'[j].port), ifs'[j].sub = 0, ifs'[i].parent = j
        PROVE  ifs'[i].port = ifs'[j].port /\ ifs'[i].sub # 0
    BY <1>4, <1>8, <2>4 DEF ZapLeft
  <2>5. ASSUME NEW ip \in IpsOn(i)', Target(ifs[i].port), ifs[i].sub = 0
        PROVE  \E v \in works' : v.op = "DeleteIPAddress" /\ v.id = ip
    <3>1. ip \in InUse(ips)' /\ ips'[ip].on = i /\ i # None
      BY <1>2, <2>1, NoneAssumption DEF IpsOn
    <3>2. ip \in IpsOn(i)
      BY <1>4, <3>1 DEF IpsOn
    <3>3. PICK v \in works : v.op = "DeleteIPAddress" /\ v.id = ip
      BY <2>1, <2>5, <3>2 DEF ZapLeft
    <3>4. v # w
      BY <1>4, <3>1, <3>3
    <3> QED BY <1>0, <3>3, <3>4
  <2> QED BY <2>1, <2>2, <2>3, <2>4, <2>5
<1>9. ZapLeft'
  BY <1>0, <1>1, <1>6, <1>7, <1>8 DEF ZapLeft
<1> QED BY <1>5, <1>9

LEMMA ZapIsDone ==
  ASSUME NetBoxOK, IsNetBox(was), script \in Seq(Command) \ {<< >>}, Zapping,
         ZapKept, ZapLeft, works = {}
  PROVE  ZapLeavesThePort
<1>0. TablesOK
  BY DEF NetBoxOK
<1> SUFFICES ASSUME NEW port \in Ports
             PROVE  IF port \notin Range(cmd.targets)
                    THEN \A i \in WasOn(port) : ifs[i] = was.ifs[i]
                    ELSE /\ ByName(port) = {} /\ ByParent(port) = {}
                         /\ IpsOn(IdOf(port, 0)) = {}
                         /\ \A i \in WasOn(port) : was.ifs[i].sub = 0 =>
                                Values(i) = [conf |-> Blank, kind |-> was.ifs[i].kind, vrf |-> None]
  BY DEF ZapLeavesThePort, ZapKept
<1>1. CASE port \notin Range(cmd.targets)
  BY <1>1 DEF ZapKept, Target, WasOn
<1>2. CASE port \in Range(cmd.targets)
  <2>1. IdOf(port, 0) \in Named(port, 0)
    BY <1>0, <1>2, IdOfName DEF ZapLeft
  <2>2. /\ IdOf(port, 0) \in InUse(ifs) /\ ifs[IdOf(port, 0)].port = port
        /\ ifs[IdOf(port, 0)].sub = 0 /\ Target(port)
    BY <1>2, <2>1 DEF Named, Target
  <2>3. ByName(port) = {}
    BY <2>2 DEF ZapLeft, ByName
  <2>4. ByParent(port) = {}
    BY <2>2, <2>3 DEF ZapLeft, ByParent, ByName
  <2>5. IpsOn(IdOf(port, 0)) = {}
    BY <2>2 DEF ZapLeft
  <2>6. \A i \in WasOn(port) : was.ifs[i].sub = 0 => Values(i) = Blanked(i)
    BY <2>2 DEF ZapKept, ZapLeft, WasOn
  <2> QED BY <1>2, <2>3, <2>4, <2>5, <2>6 DEF Blanked
<1> QED BY <1>1, <1>2

-----------------------------------------------------------------------------
\* The cable: as it begins, as it goes on, when it is done.

LEMMA CableBegun ==
  ASSUME NetBoxOK, IsNetBox(was), EndsDoNotClash, Migrating, script \in Seq(Command) \ {<< >>},
         ~Fails, was.at[cmd.src] # None, CableKept,
         at' = at, was' = was, script' = script, works' = ThePlan
  PROVE  CableLeft'
<1>0. /\ TablesOK /\ NamesAreUnique /\ cmd' = cmd /\ cmd.src \in Ports /\ cmd.tgt \in Ports
      /\ ~MigrateFails(cmd.src, cmd.tgt) /\ works' = MigratePlan(cmd.src, cmd.tgt)
      /\ CableMoved' = CableMoved
  BY CommandIs, SameWas DEF NetBoxOK, Fails, ThePlan, Zapping, Migrating, Cloning, Setting, cmd
<1>1. was.at \in [Ports \cup OtherEnds -> CableEnds \cup {None}]
  BY DEF IsNetBox
<1>2. ASSUME NEW w \in works', w.op = "ModifyCable"
      PROVE  at[cmd.src] # None /\ w = ModifyCable(<<1>>, at[cmd.src], cmd.tgt)
  <2>1. PICK i \in InUse(ifs) : MigrateWork(w, cmd.src, cmd.tgt, i)
    BY <1>0, <1>2, MigratePlanned
  <2>2. at[cmd.src] # None /\ w = ModifyCable(<<1>>, SourceEnd(cmd.src), cmd.tgt)
    BY <1>2, <2>1
    DEF MigrateWork, ReassignIPAddress, ModifyInterface, CreateInterface, DeleteInterface
  <2> QED BY <1>0, <2>2, SourceEndIs
<1>3. CASE at = was.at
  <2>1. at[cmd.src] \in CableEnds
    BY <1>0, <1>1, <1>3
  <2>2. /\ at[cmd.src] = <<at[cmd.src][1], at[cmd.src][2]>>
        /\ at[cmd.src][2] \in {"a", "b"}
    BY <2>1 DEF CableEnds
  <2>3. ~Several(Plugged(at[cmd.src]))
    BY <1>0, <1>3, <2>2 DEF MigrateFails, CableForks
  <2>4. \A t \in Ports \cup OtherEnds : at[t] = at[cmd.src] => t = cmd.src
    BY <1>0, <2>3 DEF Several, Plugged
  <2>5. ModifyCable(<<1>>, SourceEnd(cmd.src), cmd.tgt) \in works'
    BY <1>0, <1>3 DEF MigratePlan, MoveCable
  <2>6. \E w \in works' : w.op = "ModifyCable"
    BY <2>5 DEF ModifyCable
  <2> QED BY <1>0, <1>2, <1>3, <2>4, <2>6 DEF CableLeft
<1>4. CASE at = CableMoved /\ at # was.at
  <2>1. at[cmd.src] = None
    BY <1>0, <1>1, <1>4 DEF CableMoved
  <2> QED BY <1>0, <1>2, <1>4, <2>1 DEF CableLeft
<1> QED BY <1>3, <1>4 DEF CableKept

LEMMA CableGoesOn ==
  ASSUME NetBoxOK, IsNetBox(was), Migrating, script \in Seq(Command) \ {<< >>},
         was.at[cmd.src] # None, CableKept, CableLeft, NEW w \in works, IsWork(w), DoWork(w)
  PROVE  CableKept' /\ CableLeft'
<1>0. /\ script' = script /\ was' = was /\ works' = works \ {w} /\ cmd' = cmd
      /\ Resolves(w) /\ Accepts(w) /\ Execute(w)
      /\ cmd.src \in Ports /\ cmd.tgt \in Ports
      /\ CableMoved' = CableMoved
  BY CommandIs, SameWas DEF DoWork, rest, cmd
<1>1. was.at \in [Ports \cup OtherEnds -> CableEnds \cup {None}]
  BY DEF IsNetBox
<1>2. CASE w.op = "ModifyCable"
  <2>1. /\ w.port = cmd.tgt /\ w.end = was.at[cmd.src] /\ at = was.at
        /\ w = ModifyCable(<<1>>, was.at[cmd.src], cmd.tgt)
        /\ \A t \in Ports \cup OtherEnds : at[t] = at[cmd.src] => t = cmd.src
    BY <1>2 DEF CableLeft, ModifyCable
  <2>2. at' = [t \in DOMAIN at |-> IF t = w.port THEN w.end
                                  ELSE IF at[t] = w.end THEN None ELSE at[t]]
    BY <1>0, <1>2 DEF Execute
  <2>3. at' = CableMoved
    BY <1>0, <1>1, <2>1, <2>2 DEF CableMoved
  <2>4. \A v \in works' : v.op # "ModifyCable"
    BY <1>0, <2>1 DEF CableLeft
  <2> QED BY <1>0, <2>3, <2>4 DEF CableKept, CableLeft
<1>3. CASE w.op # "ModifyCable"
  <2>1. at' = at
    BY <1>0, <1>3, WorkAfter
  <2> QED BY <1>0, <1>3, <2>1 DEF CableKept, CableLeft
<1> QED BY <1>2, <1>3

LEMMA CableIsDone ==
  ASSUME Migrating, was.at[cmd.src] # None, CableLeft, works = {}
  PROVE  at = [was.at EXCEPT ![cmd.src] = None, ![cmd.tgt] = was.at[cmd.src]]
  BY DEF CableLeft, CableMoved

-----------------------------------------------------------------------------
\* migrate-interface: as it begins, as it goes on, when it is done.

LEMMA MigrateBegun ==
  ASSUME NetBoxOK, IsNetBox(was), Migrating, script \in Seq(Command) \ {<< >>}, ~Fails,
         cmd.src # cmd.tgt, MigrateKept,
         ifs' = ifs, ips' = ips, was' = was, script' = script, works' = ThePlan
  PROVE  MigrateLeft'
<1>0. /\ TablesOK /\ NamesAreUnique /\ cmd' = cmd
      /\ ~MigrateFails(cmd.src, cmd.tgt) /\ works' = MigratePlan(cmd.src, cmd.tgt)
  BY CommandIs DEF NetBoxOK, Fails, ThePlan, Zapping, Migrating, Cloning, Setting, cmd
<1>1. /\ InUse(ifs) = {i \in Ids : ifs[i] \in Interface}
      /\ InUse(was.ifs) = {i \in Ids : was.ifs[i] \in Interface}
  BY <1>0, InterfacesInUse, WasInUse DEF TablesOK
<1>2. /\ TreeIsSound(cmd.tgt) /\ ByParent(cmd.tgt) = {}
      /\ IdOf(cmd.tgt, 0) # None /\ IdOf(cmd.tgt, 0) \in Named(cmd.tgt, 0)
  BY <1>0, IdOfName DEF MigrateFails, SubsOf, TreeIsSound
<1>3. ASSUME NEW i \in WasOn(cmd.src)
      PROVE  i \in InUse(ifs) /\ ifs[i] = was.ifs[i] /\ ifs[i].port = cmd.src /\ Values(i) = WasValues(i)
  <2>1. was.ifs[i].sub # 0 => Named(cmd.tgt, was.ifs[i].sub) = {}
    BY <1>2 DEF TreeIsSound, ByName, Named
  <2>2. i \in InUse(ifs) /\ ifs[i] = was.ifs[i]
    BY <1>3, <2>1 DEF MigrateKept
  <2> QED BY <1>3, <2>2 DEF WasOn, Values, WasValues
<1>4. \A w : w \in works' <=>
          \E i \in InUse(ifs) : ifs[i].port = cmd.src /\ MigrateWork(w, cmd.src, cmd.tgt, i)
  BY <1>0, MigratePlanned
<1>5. ASSUME NEW w \in works'
      PROVE  \/ w.op = "ModifyCable"
             \/ w.op = "ReassignIPAddress" /\ w.port = cmd.tgt
             \/ w.op = "CreateInterface" /\ w.port = cmd.tgt
             \/ /\ w.op = "ModifyInterface" /\ w.id \in Named(cmd.tgt, 0)
                /\ \A i \in WasOn(cmd.src) : was.ifs[i].sub = 0 => w.values = WasValues(i)
             \/ /\ w.op = "DeleteInterface" /\ w.id \in Ids /\ ifs[w.id] # None
                /\ w.id \in InUse(ifs) =>
                       /\ ifs[w.id].port = cmd.src /\ ifs[w.id].sub # 0
                       /\ \E v \in works' : /\ v.op = "CreateInterface" /\ v.sub = ifs[w.id].sub
                                            /\ Sooner(v, w)
  <2>1. PICK k \in InUse(ifs) : ifs[k].port = cmd.src /\ MigrateWork(w, cmd.src, cmd.tgt, k)
    BY <1>4, <1>5
  <2>2. CASE at[cmd.src] # None /\ w = ModifyCable(<<1>>, SourceEnd(cmd.src), cmd.tgt)
    BY <2>2 DEF ModifyCable
  <2>3. CASE \E ip \in IpsOn(k) : w = ReassignIPAddress(<<2, ifs[k].sub, 2, ip>>, ip, cmd.tgt, ifs[k].sub)
    BY <2>3 DEF ReassignIPAddress
  <2>4. CASE /\ ifs[k].sub = 0 /\ Values(k) # Values(IdOf(cmd.tgt, 0))
             /\ w = ModifyInterface(<<2, 0, 1>>, IdOf(cmd.tgt, 0), Values(k))
    <3>1. \A i \in WasOn(cmd.src) : was.ifs[i].sub = 0 => i = k
      BY <1>0, <1>3, <2>1, <2>4 DEF NamesAreUnique
    <3>2. \A i \in WasOn(cmd.src) : was.ifs[i].sub = 0 => Values(k) = WasValues(i)
      BY <1>3, <3>1
    <3> QED BY <1>2, <2>4, <3>2 DEF ModifyInterface
  <2>5. CASE /\ ifs[k].sub # 0
             /\ w = CreateInterface(<<2, ifs[k].sub, 1>>, cmd.tgt, ifs[k].sub, IdOf(cmd.tgt, 0), Values(k))
    BY <2>5 DEF CreateInterface
  <2>6. CASE ifs[k].sub # 0 /\ w = DeleteInterface(<<2, ifs[k].sub, 3>>, k)
    <3> DEFINE v == CreateInterface(<<2, ifs[k].sub, 1>>, cmd.tgt, ifs[k].sub, IdOf(cmd.tgt, 0), Values(k))
    <3>1. v \in works'
      BY <1>4, <2>1, <2>6 DEF MigrateWork
    <3>2. v.nr = <<2, ifs[k].sub, 1>> /\ w.nr = <<2, ifs[k].sub, 3>>
      BY <2>6 DEF CreateInterface, DeleteInterface
    <3>3. v.op = "CreateInterface" /\ v.sub = ifs[k].sub
      BY DEF CreateInterface
    <3>4. w.op = "DeleteInterface" /\ w.id = k /\ k \in Ids /\ ifs[k] # None
      BY <1>1, <2>6, NoneAssumption DEF DeleteInterface
    <3> HIDE DEF v
    <3>5. Sooner(v, w)
      <4>1. 3 \in DOMAIN v.nr \cap DOMAIN w.nr
        BY <3>2
      <4>2. v.nr[3] < w.nr[3] /\ \A m \in 1 .. (3 - 1) : v.nr[m] = w.nr[m]
        BY <3>2
      <4> QED BY <4>1, <4>2 DEF Sooner
    <3> QED BY <2>1, <2>6, <3>1, <3>3, <3>4, <3>5
  <2> QED BY <2>1, <2>2, <2>3, <2>4, <2>5, <2>6 DEF MigrateWork
<1>6. ASSUME NEW i \in WasOn(cmd.src)
      PROVE  \/ \E j \in Named(cmd.tgt, was.ifs[i].sub) : Values(j) = WasValues(i)
             \/ \E w \in works' : /\ w.op = "CreateInterface" /\ w.sub = was.ifs[i].sub
                                  /\ w.values = WasValues(i)
             \/ was.ifs[i].sub = 0 /\ \E w \in works' : w.op = "ModifyInterface"
  <2>1. i \in InUse(ifs) /\ ifs[i] = was.ifs[i] /\ ifs[i].port = cmd.src /\ Values(i) = WasValues(i)
    BY <1>3, <1>6
  <2>2. \A w : MigrateWork(w, cmd.src, cmd.tgt, i) => w \in works'
    BY <1>4, <2>1
  <2>3. CASE ifs[i].sub # 0
    <3> DEFINE w == CreateInterface(<<2, ifs[i].sub, 1>>, cmd.tgt, ifs[i].sub, IdOf(cmd.tgt, 0), Values(i))
    <3>1. w \in works'
      BY <2>2, <2>3 DEF MigrateWork
    <3>2. w.op = "CreateInterface" /\ w.sub = was.ifs[i].sub /\ w.values = WasValues(i)
      BY <2>1 DEF CreateInterface
    <3> QED BY <3>1, <3>2
  <2>4. CASE ifs[i].sub = 0 /\ Values(i) = Values(IdOf(cmd.tgt, 0))
    BY <1>2, <2>1, <2>4
  <2>5. CASE ifs[i].sub = 0 /\ Values(i) # Values(IdOf(cmd.tgt, 0))
    <3> DEFINE w == ModifyInterface(<<2, 0, 1>>, IdOf(cmd.tgt, 0), Values(i))
    <3>1. w \in works'
      BY <2>2, <2>5 DEF MigrateWork
    <3>2. w.op = "ModifyInterface"
      BY DEF ModifyInterface
    <3> QED BY <2>1, <2>5, <3>1, <3>2
  <2> QED BY <2>3, <2>4, <2>5
<1>7. ASSUME NEW i \in InUse(ifs), ifs[i].port = cmd.src
      PROVE  /\ ifs[i].sub # 0 => \E w \in works' : w.op = "DeleteInterface" /\ w.id = i
             /\ \A ip \in IpsOn(i) : \E w \in works' : w.op = "ReassignIPAddress" /\ w.id = ip
  <2>1. \A w : MigrateWork(w, cmd.src, cmd.tgt, i) => w \in works'
    BY <1>4, <1>7
  <2>2. ASSUME ifs[i].sub # 0
        PROVE  \E w \in works' : w.op = "DeleteInterface" /\ w.id = i
    <3> DEFINE w == DeleteInterface(<<2, ifs[i].sub, 3>>, i)
    <3>1. w \in works'
      BY <2>1, <2>2 DEF MigrateWork
    <3> QED BY <3>1 DEF DeleteInterface
  <2>3. ASSUME NEW ip \in IpsOn(i)
        PROVE  \E w \in works' : w.op = "ReassignIPAddress" /\ w.id = ip
    <3> DEFINE w == ReassignIPAddress(<<2, ifs[i].sub, 2, ip>>, ip, cmd.tgt, ifs[i].sub)
    <3>1. w \in works'
      BY <2>1 DEF MigrateWork
    <3> QED BY <3>1 DEF ReassignIPAddress
  <2> QED BY <2>2, <2>3
<1>8. /\ \A port, sub : Named(port, sub)' = Named(port, sub)
      /\ \A i : WasValues(i)' = WasValues(i) /\ Values(i)' = Values(i) /\ IpsOn(i)' = IpsOn(i)
      /\ InUse(ifs)' = InUse(ifs) /\ WasOn(cmd.src)' = WasOn(cmd.src)
  BY <1>0, SameReads, SameWas
<1>9. \A v, w : Sooner(v, w)' <=> Sooner(v, w)
  BY DEF Sooner
<1> QED BY <1>0, <1>5, <1>6, <1>7, <1>8, <1>9 DEF MigrateLeft

LEMMA MigrateGoesOn ==
  ASSUME NetBoxOK, IsNetBox(was), Migrating, script \in Seq(Command) \ {<< >>},
         cmd.src # cmd.tgt, MigrateKept, MigrateLeft, NEW w \in works, IsWork(w), DoWork(w)
  PROVE  MigrateKept' /\ MigrateLeft'
<1>0. /\ script' = script /\ was' = was /\ works' = works \ {w} /\ cmd' = cmd /\ IsNext(w)
      /\ Resolves(w) /\ Accepts(w) /\ Execute(w)
  BY DEF DoWork, rest, cmd
<1>1. InUse(ifs) \subseteq Ids
  BY InterfacesInUse DEF NetBoxOK, TablesOK
<1>2. InterfacesDone(w) /\ AddressesDone(w) /\ InterfacesLast
  BY <1>0, WorkDoes, WorkTouches
<1>3. \/ w.op = "ModifyCable"
      \/ w.op = "ReassignIPAddress" /\ w.port = cmd.tgt
      \/ w.op = "CreateInterface" /\ w.port = cmd.tgt
      \/ /\ w.op = "ModifyInterface" /\ w.id \in Named(cmd.tgt, 0)
         /\ \A i \in WasOn(cmd.src) : was.ifs[i].sub = 0 => w.values = WasValues(i)
      \/ /\ w.op = "DeleteInterface"
         /\ ifs[w.id].port = cmd.src /\ ifs[w.id].sub # 0
         /\ \/ Named(cmd.tgt, ifs[w.id].sub) # {}
            \/ \E v \in works : v.op = "CreateInterface" /\ v.sub = ifs[w.id].sub /\ Sooner(v, w)
  BY <1>2 DEF MigrateLeft, InterfacesDone
<1>4. ASSUME NEW n, NEW j \in Named(cmd.tgt, n)
      PROVE  /\ j \in Named(cmd.tgt, n)'
             /\ Values(j)' = Values(j) \/ (w.op = "ModifyInterface" /\ w.id = j)
  <2>1. j \in InUse(ifs) /\ ifs[j].port = cmd.tgt /\ ifs[j].sub = n
    BY <1>4 DEF Named
  <2>2. ~(w.op = "DeleteInterface" /\ w.id = j)
    BY <1>3, <2>1
  <2>3. /\ j \in InUse(ifs)' /\ ifs'[j].port = cmd.tgt /\ ifs'[j].sub = n
        /\ ifs'[j] = ifs[j] \/ (w.op = "ModifyInterface" /\ w.id = j)
    BY <1>2, <2>1, <2>2 DEF InterfacesDone
  <2> QED BY <1>0, <2>3 DEF Named, Values
<1>5. ASSUME NEW i \in InUse(ifs), ifs[i].port = cmd.src
      PROVE  (i \in InUse(ifs)' /\ ifs'[i] = ifs[i]) \/ (w.op = "DeleteInterface" /\ w.id = i)
  BY <1>2, <1>3, <1>5 DEF InterfacesDone, Named
<1>6. ASSUME NEW i \in InUse(ifs)', ifs'[i].port = cmd.src
      PROVE  i \in InUse(ifs) /\ ifs[i].port = cmd.src /\ ifs'[i].sub = ifs[i].sub
  BY <1>2, <1>3, <1>6 DEF InterfacesDone
<1>7. w.op = "CreateInterface" => \E j \in Named(cmd.tgt, w.sub)' : Values(j)' = w.values
  BY <1>0, <1>2, <1>3 DEF InterfacesDone, Named
<1>8. MigrateKept'
  <2>1. ASSUME NEW i \in WasOn(cmd.src)
        PROVE  \/ i \in InUse(ifs)' /\ ifs'[i] = was.ifs[i]
               \/ was.ifs[i].sub # 0 /\ Named(cmd.tgt, was.ifs[i].sub)' # {}
    <3>1. CASE i \in InUse(ifs) /\ ifs[i] = was.ifs[i] /\ w.op = "DeleteInterface" /\ w.id = i
      <4>1. was.ifs[i].sub # 0 /\ Named(cmd.tgt, was.ifs[i].sub) # {}
        BY <1>0, <1>3, <3>1 DEF IsNext
      <4> QED BY <1>0, <1>4, <4>1 DEF Named
    <3>2. CASE i \in InUse(ifs) /\ ifs[i] = was.ifs[i] /\ ~(w.op = "DeleteInterface" /\ w.id = i)
      BY <1>5, <2>1, <3>2 DEF WasOn
    <3>3. CASE was.ifs[i].sub # 0 /\ Named(cmd.tgt, was.ifs[i].sub) # {}
      BY <1>0, <1>4, <3>3 DEF Named
    <3> QED BY <3>1, <3>2, <3>3 DEF MigrateKept
  <2>2. WasOn(cmd.src)' = WasOn(cmd.src)
    BY <1>0, SameWas
  <2> QED BY <1>0, <2>1, <2>2 DEF MigrateKept
<1>9. ASSUME NEW v \in works'
      PROVE  \/ v.op = "ModifyCable"
             \/ v.op = "ReassignIPAddress" /\ v.port = cmd.tgt
             \/ v.op = "CreateInterface" /\ v.port = cmd.tgt
             \/ /\ v.op = "ModifyInterface" /\ v.id \in Named(cmd.tgt, 0)'
                /\ \A i \in WasOn(cmd.src) : was.ifs[i].sub = 0 => v.values = WasValues(i)
             \/ /\ v.op = "DeleteInterface" /\ v.id \in Ids /\ ifs'[v.id] # None
                /\ v.id \in InUse(ifs)' =>
                       /\ ifs'[v.id].port = cmd.src /\ ifs'[v.id].sub # 0
                       /\ \/ \E j \in InUse(ifs)' : ifs'[j].port = cmd.tgt /\ ifs'[j].sub = ifs'[v.id].sub
                          \/ \E u \in works' : /\ u.op = "CreateInterface" /\ u.sub = ifs'[v.id].sub
                                               /\ Sooner(u, v)
  <2>1. v \in works
    BY <1>0, <1>9
  <2>2. CASE v.op # "DeleteInterface"
    BY <1>4, <2>1, <2>2 DEF MigrateLeft
  <2>3. CASE v.op = "DeleteInterface"
    <3>1. /\ v.id \in Ids /\ ifs[v.id] # None
          /\ v.id \in InUse(ifs) =>
                 /\ ifs[v.id].port = cmd.src /\ ifs[v.id].sub # 0
                 /\ \/ Named(cmd.tgt, ifs[v.id].sub) # {}
                    \/ \E u \in works : u.op = "CreateInterface" /\ u.sub = ifs[v.id].sub /\ Sooner(u, v)
      BY <2>1, <2>3 DEF MigrateLeft
    <3>2. ifs'[v.id] # None
      BY <1>2, <3>1 DEF InterfacesLast
    <3>3. ASSUME v.id \in InUse(ifs)'
          PROVE  v.id \in InUse(ifs) /\ ifs'[v.id].port = ifs[v.id].port /\ ifs'[v.id].sub = ifs[v.id].sub
      BY <1>2, <3>1, <3>3 DEF InterfacesLast
    <3>4. ASSUME v.id \in InUse(ifs)'
          PROVE  \/ \E j \in InUse(ifs)' : ifs'[j].port = cmd.tgt /\ ifs'[j].sub = ifs[v.id].sub
                 \/ \E u \in works' : u.op = "CreateInterface" /\ u.sub = ifs[v.id].sub /\ Sooner(u, v)
      <4>1. CASE Named(cmd.tgt, ifs[v.id].sub) # {}
        BY <1>0, <1>4, <4>1 DEF Named
      <4>2. ASSUME NEW u \in works, u.op = "CreateInterface", u.sub = ifs[v.id].sub, Sooner(u, v)
            PROVE  \/ \E j \in InUse(ifs)' : ifs'[j].port = cmd.tgt /\ ifs'[j].sub = ifs[v.id].sub
                   \/ u \in works'
        BY <1>0, <1>7, <4>2 DEF Named
      <4> QED BY <3>1, <3>3, <3>4, <4>1, <4>2
    <3> QED BY <2>3, <3>1, <3>2, <3>3, <3>4
  <2> QED BY <2>2, <2>3
<1>10. ASSUME NEW i \in WasOn(cmd.src)
       PROVE  \/ \E j \in Named(cmd.tgt, was.ifs[i].sub)' : Values(j)' = WasValues(i)
              \/ \E v \in works' : /\ v.op = "CreateInterface" /\ v.sub = was.ifs[i].sub
                                   /\ v.values = WasValues(i)
              \/ was.ifs[i].sub = 0 /\ \E v \in works' : v.op = "ModifyInterface"
  <2>1. CASE \E j \in Named(cmd.tgt, was.ifs[i].sub) : Values(j) = WasValues(i)
    <3>1. PICK j \in Named(cmd.tgt, was.ifs[i].sub) : Values(j) = WasValues(i)
      BY <2>1
    <3>2. j \in Named(cmd.tgt, was.ifs[i].sub)'
      BY <1>0, <1>4 DEF Named
    <3>3. CASE Values(j)' = Values(j)
      BY <3>1, <3>2, <3>3
    <3>4. CASE w.op = "ModifyInterface" /\ w.id = j
      <4>1. was.ifs[i].sub = 0
        BY <1>3, <3>4 DEF Named
      <4>2. w.values = WasValues(i)
        BY <1>3, <1>10, <3>4, <4>1
      <4> QED BY <1>2, <3>2, <3>4, <4>2 DEF InterfacesDone
    <3> QED BY <1>4, <3>3, <3>4
  <2>2. ASSUME NEW v \in works, v.op = "CreateInterface", v.sub = was.ifs[i].sub, v.values = WasValues(i)
        PROVE  \/ \E j \in Named(cmd.tgt, was.ifs[i].sub)' : Values(j)' = WasValues(i)
               \/ v \in works'
    BY <1>0, <1>7, <2>2
  <2>3. ASSUME was.ifs[i].sub = 0, NEW v \in works, v.op = "ModifyInterface"
        PROVE  \/ \E j \in Named(cmd.tgt, 0)' : Values(j)' = WasValues(i)
               \/ v \in works'
    <3>1. CASE v = w
      <4>1. w.id \in Named(cmd.tgt, 0)' /\ w.values = WasValues(i)
        BY <1>3, <1>4, <1>10, <2>3, <3>1
      <4> QED BY <1>2, <2>3, <3>1, <4>1 DEF InterfacesDone
    <3> QED BY <1>0, <3>1
  <2>4. ASSUME was.ifs[i].sub = 0, \E j \in Named(cmd.tgt, 0)' : Values(j)' = WasValues(i)
        PROVE  \E j \in Named(cmd.tgt, was.ifs[i].sub)' : Values(j)' = WasValues(i)
    BY <1>0, <2>4 DEF Named
  <2> QED BY <1>10, <2>1, <2>2, <2>3, <2>4 DEF MigrateLeft
<1>11. ASSUME NEW i \in InUse(ifs)', ifs'[i].port = cmd.src
       PROVE  /\ ifs'[i].sub # 0 => \E v \in works' : v.op = "DeleteInterface" /\ v.id = i
              /\ \A ip \in IpsOn(i)' : \E v \in works' : v.op = "ReassignIPAddress" /\ v.id = ip
  <2>1. i \in InUse(ifs) /\ ifs[i].port = cmd.src /\ ifs'[i].sub = ifs[i].sub
    BY <1>6, <1>11
  <2>2. ASSUME ifs[i].sub # 0
        PROVE  \E v \in works' : v.op = "DeleteInterface" /\ v.id = i
    <3>1. PICK v \in works : v.op = "DeleteInterface" /\ v.id = i
      BY <2>1, <2>2 DEF MigrateLeft
    <3>2. v # w
      BY <1>2, <1>11, <3>1 DEF InterfacesDone
    <3> QED BY <1>0, <3>1, <3>2
  <2>3. ASSUME NEW ip \in IpsOn(i)'
        PROVE  \E v \in works' : v.op = "ReassignIPAddress" /\ v.id = ip
    <3>1. ip \in InUse(ips)' /\ ips'[ip].on = i /\ i # None
      BY <1>1, <2>1, <2>3, NoneAssumption DEF IpsOn
    <3>2. ~(w.op = "ReassignIPAddress" /\ w.id = ip)
      BY <1>2, <1>3, <2>1, <3>1 DEF AddressesDone, Named
    <3>3. ip \in IpsOn(i)
      BY <1>2, <1>3, <3>1, <3>2 DEF AddressesDone, IpsOn
    <3>4. PICK v \in works : v.op = "ReassignIPAddress" /\ v.id = ip
      BY <2>1, <3>3 DEF MigrateLeft
    <3> QED BY <1>0, <3>2, <3>4
  <2> QED BY <2>1, <2>2, <2>3
<1>12. MigrateLeft'
  <2>1. /\ WasOn(cmd.src)' = WasOn(cmd.src) /\ \A i : WasValues(i)' = WasValues(i)
        /\ \A u, v : Sooner(u, v)' <=> Sooner(u, v)
    BY <1>0, SameWas DEF Sooner
  <2> QED BY <1>0, <1>9, <1>10, <1>11, <2>1 DEF MigrateLeft, Named
<1> QED BY <1>8, <1>12

LEMMA MigrateIsDone ==
  ASSUME NetBoxOK, Migrating, cmd.src # cmd.tgt, MigrateLeft, works = {}, NoAddressLeftLoose
  PROVE  MigrateMoves
<1>0. TablesOK /\ NamesAreUnique /\ NothingDangles
  BY DEF NetBoxOK
<1>1. ByName(cmd.src) = {}
  BY DEF MigrateLeft, ByName
<1>2. ASSUME NEW i \in WasOn(cmd.src)
      PROVE  LET j == IdOf(cmd.tgt, was.ifs[i].sub)
             IN  j # None /\ Values(j) = WasValues(i)
  <2>1. PICK j \in Named(cmd.tgt, was.ifs[i].sub) : Values(j) = WasValues(i)
    BY <1>2 DEF MigrateLeft
  <2>2. j \in InUse(ifs) /\ ifs[j].port = cmd.tgt /\ ifs[j].sub = was.ifs[i].sub
    BY DEF Named
  <2>3. IdOf(cmd.tgt, was.ifs[i].sub) = j
    BY <1>0, <2>2, IdOfInUse
  <2>4. j # None
    BY <1>0, <2>2, InterfacesInUse, NoneAssumption DEF TablesOK
  <2> QED BY <2>1, <2>3, <2>4
<1>3. ASSUME NEW ip \in Placed, Was(ip)[1] = cmd.src
      PROVE  Place(ip)[1] = cmd.tgt
  <2>1. CASE Place(ip) = Was(ip)
    <3>1. ip \in InUse(ips) /\ ips[ip].on # None
      BY <2>1, PlaceIs, WasSomewhere
    <3>2. ips[ip].on \in InUse(ifs) /\ Place(ip) = <<ifs[ips[ip].on].port, ifs[ips[ip].on].sub>>
      BY <1>0, <3>1, PlaceIs DEF NothingDangles
    <3>3. ifs[ips[ip].on].port = cmd.src
      BY <1>3, <2>1, <3>2
    <3>4. ip \in IpsOn(ips[ip].on)
      BY <3>1 DEF IpsOn
    <3> QED BY <3>2, <3>3, <3>4 DEF MigrateLeft
  <2>2. CASE Place(ip) = <<cmd.tgt, Was(ip)[2]>>
    BY <2>2
  <2> QED BY <2>1, <2>2, OneCommand DEF NoAddressLeftLoose
<1> QED BY <1>1, <1>2, <1>3 DEF MigrateMoves, WasValues

-----------------------------------------------------------------------------
\* clone-interface: as it begins, as it goes on, when it is done.

\* An interface of the source that is cloned onto one that is there.
LEMMA CloneOntoAccepted ==
  ASSUME TablesOK, NamesAreUnique, NEW src, NEW tgt, ~CloneFails(src, tgt),
         NEW i \in InUse(ifs), ifs[i].port = src, ifs[i].sub = 0 \/ ifs[i].conf # NotCloned,
         IdOf(tgt, ifs[i].sub) # None
  PROVE  ~CloneOntoFails(i, IdOf(tgt, ifs[i].sub))
<1>1. CASE ifs[i].sub = 0
  <2>1. IdOf(src, 0) = i
    BY <1>1, IdOfInUse
  <2> QED BY <1>1, <2>1 DEF CloneFails
<1>2. CASE ifs[i].sub # 0
  <2>1. i \in ByParent(src)
    BY <1>2, SoundTree DEF CloneFails
  <2>2. i \in Cloned(src)
    BY <1>2, <2>1 DEF Cloned
  <2> QED BY <2>2 DEF CloneFails
<1> QED BY <1>1, <1>2

LEMMA CloneBegun ==
  ASSUME NetBoxOK, IsNetBox(was), Cloning, script \in Seq(Command) \ {<< >>}, ~Fails, CloneKept,
         ifs' = ifs, ips' = ips, was' = was, script' = script, works' = ThePlan
  PROVE  CloneLeft'
<1>0. /\ TablesOK /\ NamesAreUnique /\ cmd' = cmd
      /\ ~CloneFails(cmd.src, cmd.tgt) /\ works' = ClonePlan(cmd.src, cmd.tgt)
  BY CommandIs DEF NetBoxOK, Fails, ThePlan, Zapping, Migrating, Cloning, Setting, cmd
<1>1. ASSUME NEW i \in WasOn(cmd.src)
      PROVE  i \in InUse(ifs) /\ ifs[i] = was.ifs[i] /\ ifs[i].port = cmd.src /\ Values(i) = WasValues(i)
  BY <1>1 DEF CloneKept, WasOn, Values, WasValues
<1>2. \A w : w \in works' <=>
          \E i \in InUse(ifs) : /\ ifs[i].port = cmd.src /\ (ifs[i].sub = 0 \/ ifs[i].conf # NotCloned)
                                /\ CloneWork(w, cmd.tgt, i)
  BY <1>0, ClonePlanned
<1>3. \A n : IdOf(cmd.tgt, n) # None => IdOf(cmd.tgt, n) \in Named(cmd.tgt, n)
  BY <1>0, IdOfName
<1>4. ASSUME cmd.src = cmd.tgt, NEW w \in works' PROVE FALSE
  <2>1. PICK i \in InUse(ifs) : ifs[i].port = cmd.src /\ CloneWork(w, cmd.tgt, i)
    BY <1>2, <1>4
  <2>2. IdOf(cmd.tgt, ifs[i].sub) = i /\ i # None
    BY <1>0, <1>4, <2>1, IdOfInUse, InterfacesInUse, NoneAssumption DEF TablesOK
  <2>3. Missing(i, i) = {}
    BY <2>2 DEF Missing, Twins
  <2> QED BY <2>1, <2>2, <2>3 DEF CloneWork
<1>5. ASSUME NEW w \in works'
      PROVE  \/ w.op = "ModifyIPAddress"
             \/ w.op = "CreateInterface" /\ w.port = cmd.tgt
             \/ /\ w.op = "ModifyInterface"
                /\ \E i \in WasOn(cmd.src) :
                       w.values = WasValues(i) /\ w.id \in Named(cmd.tgt, was.ifs[i].sub)
             \/ /\ w.op = "AssignIPAddress" /\ w.port = cmd.tgt
                /\ w.id # None => w.id \in Named(cmd.tgt, w.sub)
                /\ \E i \in WasOn(cmd.src) : \E ip \in IpsOn(i) :
                       w.sub = was.ifs[i].sub /\ w.addr = ips[ip].addr /\ w.vrf = ips[ip].vrf
  <2>1. PICK i \in InUse(ifs) : ifs[i].port = cmd.src /\ CloneWork(w, cmd.tgt, i)
    BY <1>2, <1>5
  <2>2. i \in WasOn(cmd.src) /\ ifs[i] = was.ifs[i] /\ Values(i) = WasValues(i)
    BY <1>1, <2>1 DEF CloneKept
  <2> DEFINE sub == ifs[i].sub
             j == IdOf(cmd.tgt, sub)
  <2>3. CASE \E ip \in Missing(i, j) : w = MakeAnycast(<<sub, 2, ip, 1>>, ip)
    BY <2>3 DEF MakeAnycast
  <2>4. ASSUME NEW ip \in Missing(i, j), w = AssignIPAddress(<<sub, 2, ip, 2>>, ip, j, cmd.tgt, sub)
        PROVE  /\ w.op = "AssignIPAddress" /\ w.port = cmd.tgt
               /\ w.id # None => w.id \in Named(cmd.tgt, w.sub)
               /\ ip \in IpsOn(i) /\ w.sub = was.ifs[i].sub
               /\ w.addr = ips[ip].addr /\ w.vrf = ips[ip].vrf
    BY <1>3, <2>2, <2>4 DEF AssignIPAddress, Missing
  <2>5. CASE w = CreateInterface(<<sub, 1>>, cmd.tgt, sub, IdOf(cmd.tgt, 0), Values(i))
    BY <2>5 DEF CreateInterface
  <2>6. CASE j # None /\ w = ModifyInterface(<<sub, 1>>, j, Values(i))
    BY <1>3, <2>2, <2>6 DEF ModifyInterface
  <2> QED BY <2>1, <2>2, <2>3, <2>4, <2>5, <2>6 DEF CloneWork
<1>6. ASSUME NEW i \in InUse(was.ifs), WasCloned(i)
      PROVE  /\ \/ \E j \in Named(cmd.tgt, was.ifs[i].sub) : Values(j) = WasValues(i)
                \/ \E w \in works' : /\ w.op = "CreateInterface" /\ w.sub = was.ifs[i].sub
                                     /\ w.values = WasValues(i)
                \/ \E w \in works' : /\ w.op = "ModifyInterface"
                                     /\ w.id \in Named(cmd.tgt, was.ifs[i].sub)
             /\ \A ip \in IpsOn(i) :
                    \/ \E j \in Named(cmd.tgt, was.ifs[i].sub) :
                           \E other \in IpsOn(j) : SameAddress(ip, other)
                    \/ \E w \in works' : /\ w.op = "AssignIPAddress" /\ w.sub = was.ifs[i].sub
                                         /\ w.addr = ips[ip].addr /\ w.vrf = ips[ip].vrf
             /\ \A j \in Named(cmd.tgt, was.ifs[i].sub) :
                    \A other \in IpsOn(j) : \E ip \in IpsOn(i) : SameAddress(ip, other)
  <2> DEFINE sub == was.ifs[i].sub
             j == IdOf(cmd.tgt, sub)
  <2>1. /\ i \in InUse(ifs) /\ ifs[i] = was.ifs[i] /\ ifs[i].port = cmd.src
        /\ ifs[i].sub = 0 \/ ifs[i].conf # NotCloned
        /\ Values(i) = WasValues(i)
    BY <1>1, <1>6 DEF WasCloned
  <2>2. \A w : CloneWork(w, cmd.tgt, i) => w \in works'
    BY <1>2, <2>1
  <2>3. j # None => j \in Named(cmd.tgt, sub)
    BY <1>3
  <2>4. \A k \in Named(cmd.tgt, sub) : k = j
    BY <1>0, IdOfInUse DEF Named
  <2>5. j # None => ~CloneOntoFails(i, j)
    BY <1>0, <2>1, CloneOntoAccepted
  <2>6. ASSUME j = None
        PROVE  \E w \in works' : /\ w.op = "CreateInterface" /\ w.sub = sub
                                 /\ w.values = WasValues(i)
    <3> DEFINE w == CreateInterface(<<sub, 1>>, cmd.tgt, sub, IdOf(cmd.tgt, 0), Values(i))
    <3>1. w \in works'
      BY <2>1, <2>2, <2>6 DEF CloneWork
    <3>2. w.op = "CreateInterface" /\ w.sub = sub /\ w.values = WasValues(i)
      BY <2>1 DEF CreateInterface
    <3> QED BY <3>1, <3>2
  <2>7. ASSUME j # None, Values(i) # Values(j)
        PROVE  \E w \in works' : w.op = "ModifyInterface" /\ w.id \in Named(cmd.tgt, sub)
    <3> DEFINE w == ModifyInterface(<<sub, 1>>, j, Values(i))
    <3>1. w \in works'
      BY <2>1, <2>2, <2>7 DEF CloneWork
    <3>2. w.op = "ModifyInterface" /\ w.id \in Named(cmd.tgt, sub)
      BY <2>3, <2>7 DEF ModifyInterface
    <3> QED BY <3>1, <3>2
  <2>8. ASSUME j # None, Values(i) = Values(j)
        PROVE  \E k \in Named(cmd.tgt, sub) : Values(k) = WasValues(i)
    BY <2>1, <2>3, <2>8
  <2>9. ASSUME NEW ip \in IpsOn(i), ip \in Missing(i, j)
        PROVE  \E w \in works' : /\ w.op = "AssignIPAddress" /\ w.sub = sub
                                 /\ w.addr = ips[ip].addr /\ w.vrf = ips[ip].vrf
    <3> DEFINE w == AssignIPAddress(<<sub, 2, ip, 2>>, ip, j, cmd.tgt, sub)
    <3>1. w \in works'
      BY <2>1, <2>2, <2>9 DEF CloneWork
    <3>2. /\ w.op = "AssignIPAddress" /\ w.sub = sub
          /\ w.addr = ips[ip].addr /\ w.vrf = ips[ip].vrf
      BY DEF AssignIPAddress
    <3> QED BY <3>1, <3>2
  <2>10. ASSUME NEW ip \in IpsOn(i), ip \notin Missing(i, j)
         PROVE  \E k \in Named(cmd.tgt, sub) : \E other \in IpsOn(k) : SameAddress(ip, other)
    <3>1. j # None /\ Twins(ip, j) # {}
      BY <2>10 DEF Missing
    <3>2. PICK other \in Twins(ip, j) : TRUE
      BY <3>1
    <3>3. ~Differ(ip, other)
      BY <2>5, <2>10, <3>1, <3>2 DEF CloneOntoFails
    <3> QED BY <2>3, <3>1, <3>2, <3>3 DEF Twins, Differ, SameAddress
  <2>11. ASSUME NEW k \in Named(cmd.tgt, sub), NEW other \in IpsOn(k)
         PROVE  \E ip \in IpsOn(i) : SameAddress(ip, other)
    <3>1. k = j /\ j # None
      BY <1>0, <2>4, IdOfName
    <3>2. PICK ip \in IpsOn(i) : ips[ip].addr = ips[other].addr
      BY <2>5, <2>11, <3>1 DEF CloneOntoFails
    <3>3. other \in Twins(ip, j)
      BY <2>11, <3>1, <3>2 DEF Twins
    <3>4. ~Differ(ip, other)
      BY <2>5, <3>1, <3>2, <3>3 DEF CloneOntoFails
    <3> QED BY <3>2, <3>4 DEF Differ, SameAddress
  <2> QED BY <2>6, <2>7, <2>8, <2>9, <2>10, <2>11
<1>7. /\ \A port, n : Named(port, n)' = Named(port, n)
      /\ \A i : WasValues(i)' = WasValues(i) /\ Values(i)' = Values(i) /\ IpsOn(i)' = IpsOn(i)
      /\ \A i : WasCloned(i)' <=> WasCloned(i)
      /\ InUse(was.ifs)' = InUse(was.ifs) /\ WasOn(cmd.src)' = WasOn(cmd.src)
  BY <1>0, SameReads, SameWas
<1>8. \A ip, other : SameAddress(ip, other)' <=> SameAddress(ip, other)
  BY DEF SameAddress
<1>9. cmd.src = cmd.tgt => works' = {}
  BY <1>4
<1> QED BY <1>0, <1>5, <1>6, <1>7, <1>8, <1>9 DEF CloneLeft

LEMMA CloneGoesOn ==
  ASSUME NetBoxOK, IsNetBox(was), Cloning, script \in Seq(Command) \ {<< >>},
         CloneKept, CloneLeft, NEW w \in works, IsWork(w), DoWork(w)
  PROVE  CloneKept' /\ CloneLeft'
<1>0. /\ script' = script /\ was' = was /\ works' = works \ {w} /\ cmd' = cmd
      /\ Resolves(w) /\ Accepts(w) /\ Execute(w)
      /\ TablesOK /\ NothingDangles
  BY DEF DoWork, rest, cmd, NetBoxOK
<1>1. /\ InUse(ifs) \subseteq Ids /\ None \notin Ids
      /\ cmd.src # cmd.tgt
  BY <1>0, InterfacesInUse, NoneAssumption DEF TablesOK, CloneLeft
<1>2. InterfacesDone(w) /\ AddressesDone(w)
  BY <1>0, WorkDoes
<1>3. \A i \in WasOn(cmd.src), k \in WasOn(cmd.src) : was.ifs[i].sub = was.ifs[k].sub => i = k
  BY DEF IsNetBox, WasOn
<1>4. \/ w.op = "ModifyIPAddress"
      \/ w.op = "CreateInterface" /\ w.port = cmd.tgt
      \/ /\ w.op = "ModifyInterface"
         /\ \E i \in WasOn(cmd.src) :
                w.values = WasValues(i) /\ w.id \in Named(cmd.tgt, was.ifs[i].sub)
      \/ /\ w.op = "AssignIPAddress" /\ w.port = cmd.tgt
         /\ w.id # None => w.id \in Named(cmd.tgt, w.sub)
         /\ \E i \in WasOn(cmd.src) : \E ip \in IpsOn(i) :
                w.sub = was.ifs[i].sub /\ w.addr = ips[ip].addr /\ w.vrf = ips[ip].vrf
  BY DEF CloneLeft
<1>5. ASSUME NEW n, NEW j \in Named(cmd.tgt, n)
      PROVE  /\ j \in Named(cmd.tgt, n)'
             /\ Values(j)' = Values(j) \/ (w.op = "ModifyInterface" /\ w.id = j)
  BY <1>0, <1>2, <1>4, <1>5 DEF Named, InterfacesDone, Values
<1>6. ASSUME NEW i \in InUse(ifs), ifs[i].port = cmd.src
      PROVE  i \in InUse(ifs)' /\ ifs'[i] = ifs[i]
  BY <1>1, <1>2, <1>4, <1>6 DEF InterfacesDone, Named
<1>7. ASSUME NEW i \in InUse(ifs)', ifs'[i].port = cmd.src
      PROVE  i \in InUse(ifs) /\ ifs[i].port = cmd.src
  BY <1>1, <1>2, <1>4, <1>7 DEF InterfacesDone
<1>8. w.op = "CreateInterface" => \E j \in Named(cmd.tgt, w.sub)' : Values(j)' = w.values
  BY <1>0, <1>2, <1>4 DEF InterfacesDone, Named
<1>9. w.op = "AssignIPAddress" => Destination(w) \in Named(cmd.tgt, w.sub)
  BY <1>0, <1>4, IdOfName DEF Destination, Resolves
<1>10. ASSUME NEW ip \in InUse(ips)
       PROVE  /\ ip \in InUse(ips)' /\ ips'[ip].on = ips[ip].on
              /\ ips'[ip].addr = ips[ip].addr /\ ips'[ip].vrf = ips[ip].vrf
  BY <1>2, <1>4 DEF AddressesDone
<1>11. ASSUME NEW ip \in InUse(ips)', ip \notin InUse(ips)
       PROVE  /\ w.op = "AssignIPAddress" /\ ips'[ip].on \in Named(cmd.tgt, w.sub)
              /\ ips'[ip].addr = w.addr /\ ips'[ip].vrf = w.vrf
  BY <1>2, <1>9, <1>11 DEF AddressesDone
<1>12. \A i \in WasOn(cmd.src) : i \in InUse(ifs) /\ ifs[i] = was.ifs[i] /\ ifs[i].port = cmd.src
  BY DEF CloneKept, WasOn
<1>13. ASSUME NEW i \in WasOn(cmd.src) PROVE IpsOn(i)' = IpsOn(i)
  BY <1>1, <1>10, <1>11, <1>12 DEF IpsOn, Named
<1>14. /\ WasOn(cmd.src)' = WasOn(cmd.src) /\ InUse(was.ifs)' = InUse(was.ifs)
       /\ InUse(was.ips)' = InUse(was.ips)
       /\ \A i : WasValues(i)' = WasValues(i) /\ (WasCloned(i)' <=> WasCloned(i))
  BY <1>0, SameWas
<1>15. CloneKept'
  <2>1. \A i \in WasOn(cmd.src) : i \in InUse(ifs)' /\ ifs'[i] = was.ifs[i]
    BY <1>6, <1>12
  <2>2. \A i \in InUse(ifs)' : ifs'[i].port = cmd.src => i \in WasOn(cmd.src)
    BY <1>7 DEF CloneKept
  <2>3. ASSUME NEW ip \in InUse(ips)', ips'[ip].on \in WasOn(cmd.src)
        PROVE  ip \in InUse(was.ips) /\ was.ips[ip].on = ips'[ip].on
    <3>1. ip \in InUse(ips)
      BY <1>1, <1>11, <1>12, <2>3 DEF Named
    <3> QED BY <1>10, <2>3, <3>1 DEF CloneKept
  <2> QED BY <1>0, <1>14, <2>1, <2>2, <2>3 DEF CloneKept
<1>16. ASSUME NEW v \in works'
       PROVE  \/ v.op = "ModifyIPAddress"
              \/ v.op = "CreateInterface" /\ v.port = cmd.tgt
              \/ /\ v.op = "ModifyInterface"
                 /\ \E i \in WasOn(cmd.src) :
                        /\ v.values = WasValues(i)
                        /\ v.id \in InUse(ifs)' /\ ifs'[v.id].port = cmd.tgt /\ ifs'[v.id].sub = was.ifs[i].sub
              \/ /\ v.op = "AssignIPAddress" /\ v.port = cmd.tgt
                 /\ v.id # None =>
                        v.id \in InUse(ifs)' /\ ifs'[v.id].port = cmd.tgt /\ ifs'[v.id].sub = v.sub
                 /\ \E i \in WasOn(cmd.src) : \E ip \in IpsOn(i)' :
                        v.sub = was.ifs[i].sub /\ v.addr = ips'[ip].addr /\ v.vrf = ips'[ip].vrf
  <2>1. v \in works
    BY <1>0, <1>16
  <2>2. CASE v.op \in {"ModifyIPAddress", "CreateInterface"}
    BY <2>1, <2>2 DEF CloneLeft
  <2>3. CASE v.op = "ModifyInterface"
    <3>1. PICK i \in WasOn(cmd.src) : v.values = WasValues(i) /\ v.id \in Named(cmd.tgt, was.ifs[i].sub)
      BY <2>1, <2>3 DEF CloneLeft
    <3>2. v.id \in InUse(ifs)' /\ ifs'[v.id].port = cmd.tgt /\ ifs'[v.id].sub = was.ifs[i].sub
      BY <1>0, <1>5, <3>1 DEF Named
    <3> QED BY <2>3, <3>1, <3>2
  <2>4. CASE v.op = "AssignIPAddress"
    <3>1. v.port = cmd.tgt /\ (v.id # None => v.id \in Named(cmd.tgt, v.sub))
      BY <2>1, <2>4 DEF CloneLeft
    <3>2. PICK i \in WasOn(cmd.src) : \E ip \in IpsOn(i) :
             v.sub = was.ifs[i].sub /\ v.addr = ips[ip].addr /\ v.vrf = ips[ip].vrf
      BY <2>1, <2>4 DEF CloneLeft
    <3>3. v.id # None => v.id \in InUse(ifs)' /\ ifs'[v.id].port = cmd.tgt /\ ifs'[v.id].sub = v.sub
      BY <1>0, <1>5, <3>1 DEF Named
    <3>4. \E ip \in IpsOn(i)' : v.sub = was.ifs[i].sub /\ v.addr = ips'[ip].addr /\ v.vrf = ips'[ip].vrf
      BY <1>10, <1>13, <3>2 DEF IpsOn
    <3> QED BY <2>4, <3>1, <3>3, <3>4
  <2> QED BY <2>1, <2>2, <2>3, <2>4 DEF CloneLeft
<1>17. ASSUME NEW i \in InUse(was.ifs), WasCloned(i)
       PROVE  /\ \/ \E j \in InUse(ifs)' : /\ ifs'[j].port = cmd.tgt /\ ifs'[j].sub = was.ifs[i].sub
                                           /\ Values(j)' = WasValues(i)
                 \/ \E v \in works' : /\ v.op = "CreateInterface" /\ v.sub = was.ifs[i].sub
                                      /\ v.values = WasValues(i)
                 \/ \E v \in works' : /\ v.op = "ModifyInterface" /\ v.id \in InUse(ifs)'
                                      /\ ifs'[v.id].port = cmd.tgt /\ ifs'[v.id].sub = was.ifs[i].sub
              /\ \A ip \in IpsOn(i)' :
                     \/ \E j \in InUse(ifs)' :
                            /\ ifs'[j].port = cmd.tgt /\ ifs'[j].sub = was.ifs[i].sub
                            /\ \E other \in IpsOn(j)' : SameAddress(ip, other)'
                     \/ \E v \in works' : /\ v.op = "AssignIPAddress" /\ v.sub = was.ifs[i].sub
                                          /\ v.addr = ips'[ip].addr /\ v.vrf = ips'[ip].vrf
              /\ \A j \in InUse(ifs)' : ifs'[j].port = cmd.tgt /\ ifs'[j].sub = was.ifs[i].sub =>
                     \A other \in IpsOn(j)' : \E ip \in IpsOn(i)' : SameAddress(ip, other)'
  <2> DEFINE sub == was.ifs[i].sub
  <2>0. i \in WasOn(cmd.src)
    BY <1>17 DEF WasCloned
  <2>1. ASSUME NEW v \in works, v.op = "ModifyInterface", v.id \in Named(cmd.tgt, sub)
        PROVE  v.values = WasValues(i)
    <3>1. PICK k \in WasOn(cmd.src) : v.values = WasValues(k) /\ v.id \in Named(cmd.tgt, was.ifs[k].sub)
      BY <2>1 DEF CloneLeft
    <3>2. k = i
      BY <1>3, <2>0, <2>1, <3>1 DEF Named
    <3> QED BY <3>1, <3>2
  <2>2. \A j \in Named(cmd.tgt, sub) : j \in InUse(ifs)' /\ ifs'[j].port = cmd.tgt /\ ifs'[j].sub = sub
    BY <1>0, <1>5 DEF Named
  <2>3. ASSUME NEW j \in Named(cmd.tgt, sub), Values(j) = WasValues(i)
        PROVE  Values(j)' = WasValues(i)
    <3>1. CASE w.op = "ModifyInterface" /\ w.id = j
      BY <1>2, <2>1, <2>3, <3>1 DEF InterfacesDone
    <3>2. CASE Values(j)' = Values(j)
      BY <2>3, <3>2
    <3> QED BY <1>5, <3>1, <3>2
  <2>4. ASSUME NEW v \in works, v.op = "CreateInterface", v.sub = sub, v.values = WasValues(i)
        PROVE  \/ v \in works'
               \/ \E j \in InUse(ifs)' : /\ ifs'[j].port = cmd.tgt /\ ifs'[j].sub = sub
                                         /\ Values(j)' = WasValues(i)
    BY <1>0, <1>8, <2>4 DEF Named
  <2>5. ASSUME NEW v \in works, v.op = "ModifyInterface", v.id \in Named(cmd.tgt, sub)
        PROVE  v \in works' \/ Values(v.id)' = WasValues(i)
    BY <1>0, <1>2, <2>1, <2>5 DEF InterfacesDone
  <2>6. \/ \E j \in InUse(ifs)' : /\ ifs'[j].port = cmd.tgt /\ ifs'[j].sub = sub
                                  /\ Values(j)' = WasValues(i)
        \/ \E v \in works' : v.op = "CreateInterface" /\ v.sub = sub /\ v.values = WasValues(i)
        \/ \E v \in works' : /\ v.op = "ModifyInterface" /\ v.id \in InUse(ifs)'
                             /\ ifs'[v.id].port = cmd.tgt /\ ifs'[v.id].sub = sub
    BY <1>17, <2>2, <2>3, <2>4, <2>5 DEF CloneLeft
  <2>7. ASSUME NEW ip \in IpsOn(i)'
        PROVE  \/ \E j \in InUse(ifs)' : /\ ifs'[j].port = cmd.tgt /\ ifs'[j].sub = sub
                                         /\ \E other \in IpsOn(j)' : SameAddress(ip, other)'
               \/ \E v \in works' : /\ v.op = "AssignIPAddress" /\ v.sub = sub
                                    /\ v.addr = ips'[ip].addr /\ v.vrf = ips'[ip].vrf
    <3>1. ip \in IpsOn(i) /\ ip \in InUse(ips)
      BY <1>13, <2>0, <2>7 DEF IpsOn
    <3>2. ASSUME NEW j \in Named(cmd.tgt, sub), NEW other \in IpsOn(j), SameAddress(ip, other)
          PROVE  other \in IpsOn(j)' /\ SameAddress(ip, other)'
      BY <1>10, <3>1, <3>2 DEF IpsOn, SameAddress
    <3>3. ASSUME NEW v \in works, v.op = "AssignIPAddress", v.sub = sub, v.addr = ips[ip].addr,
                 v.vrf = ips[ip].vrf, v \notin works'
          PROVE  \E j \in InUse(ifs)' : /\ ifs'[j].port = cmd.tgt /\ ifs'[j].sub = sub
                                        /\ \E other \in IpsOn(j)' : SameAddress(ip, other)'
      <4>1. v = w
        BY <1>0, <3>3
      <4>2. PICK other \in InUse(ips)' : other \notin InUse(ips)
        BY <1>2, <3>3, <4>1 DEF AddressesDone
      <4>3. /\ ips'[other].on \in Named(cmd.tgt, sub)
            /\ ips'[other].addr = ips'[ip].addr /\ ips'[other].vrf = ips'[ip].vrf
        BY <1>10, <1>11, <3>1, <3>3, <4>1, <4>2
      <4>4. other \in IpsOn(ips[other].on)' /\ SameAddress(ip, other)'
        BY <4>2, <4>3 DEF IpsOn, SameAddress
      <4> QED BY <2>2, <4>3, <4>4
    <3>4. \/ \E j \in Named(cmd.tgt, sub) : \E other \in IpsOn(j) : SameAddress(ip, other)
          \/ \E v \in works : /\ v.op = "AssignIPAddress" /\ v.sub = sub
                              /\ v.addr = ips[ip].addr /\ v.vrf = ips[ip].vrf
      BY <1>17, <3>1 DEF CloneLeft
    <3> QED BY <1>10, <2>2, <3>1, <3>2, <3>3, <3>4
  <2>8. ASSUME NEW j \in InUse(ifs)', ifs'[j].port = cmd.tgt, ifs'[j].sub = sub,
               NEW other \in IpsOn(j)'
        PROVE  \E ip \in IpsOn(i)' : SameAddress(ip, other)'
    <3>1. other \in InUse(ips)' /\ ips'[other].on = j
      BY <2>8 DEF IpsOn
    <3>2. CASE other \in InUse(ips)
      <4>1. NetBoxOK'
        BY <1>0, StaysNetBox
      <4>2. j # None
        BY <1>1, <2>8, <4>1, InterfacesInUse DEF NetBoxOK, TablesOK
      <4>3. ips[other].on = j /\ j \in InUse(ifs)
        BY <1>0, <1>10, <3>1, <3>2, <4>2 DEF NothingDangles
      <4>4. ifs'[j].port = ifs[j].port /\ ifs'[j].sub = ifs[j].sub
        BY <1>2, <1>4, <4>3 DEF InterfacesDone
      <4>5. j \in Named(cmd.tgt, sub) /\ other \in IpsOn(j)
        BY <2>8, <3>2, <4>3, <4>4 DEF Named, IpsOn
      <4>6. PICK ip \in IpsOn(i) : SameAddress(ip, other)
        BY <1>17, <4>5 DEF CloneLeft
      <4>7. ip \in IpsOn(i)' /\ SameAddress(ip, other)'
        BY <1>10, <1>13, <2>0, <3>2, <4>6 DEF IpsOn, SameAddress
      <4> QED BY <4>7
    <3>3. CASE other \notin InUse(ips)
      <4>1. /\ w.op = "AssignIPAddress" /\ j \in Named(cmd.tgt, w.sub)
            /\ ips'[other].addr = w.addr /\ ips'[other].vrf = w.vrf
        BY <1>11, <3>1, <3>3
      <4>2. w.sub = sub
        BY <1>5, <2>8, <4>1 DEF Named
      <4>3. PICK k \in WasOn(cmd.src) : \E ip \in IpsOn(k) :
               w.sub = was.ifs[k].sub /\ w.addr = ips[ip].addr /\ w.vrf = ips[ip].vrf
        BY <1>4, <4>1
      <4>4. k = i
        BY <1>3, <2>0, <4>2, <4>3
      <4>5. PICK ip \in IpsOn(i) : w.addr = ips[ip].addr /\ w.vrf = ips[ip].vrf
        BY <4>3, <4>4
      <4>6. ip \in IpsOn(i)' /\ SameAddress(ip, other)'
        BY <1>10, <1>13, <2>0, <4>1, <4>5 DEF IpsOn, SameAddress
      <4> QED BY <4>6
    <3> QED BY <3>2, <3>3
  <2> QED BY <2>6, <2>7, <2>8
<1>18. CloneLeft'
  BY <1>0, <1>1, <1>14, <1>16, <1>17 DEF CloneLeft, Named
<1> QED BY <1>15, <1>18

LEMMA CloneIsDone ==
  ASSUME NetBoxOK, Cloning, CloneKept, CloneLeft, works = {}
  PROVE  CloneCopies
<1>0. TablesOK /\ NamesAreUnique
  BY DEF NetBoxOK
<1> SUFFICES ASSUME NEW i \in WasOn(cmd.src), was.ifs[i].sub = 0 \/ was.ifs[i].conf # NotCloned
             PROVE  LET j == IdOf(cmd.tgt, was.ifs[i].sub)
                        on(k) == {<<ips[ip].addr, ips[ip].vrf>> : ip \in IpsOn(k)}
                    IN  /\ j # None /\ Values(j) = Values(i)
                        /\ ifs[i] = was.ifs[i]
                        /\ on(i) = on(j)
                        /\ \A ip \in IpsOn(i) : Place(ip) = Was(ip)
  BY DEF CloneCopies
<1>1. /\ i \in InUse(was.ifs) /\ WasCloned(i)
      /\ i \in InUse(ifs) /\ ifs[i] = was.ifs[i] /\ Values(i) = WasValues(i)
  BY DEF CloneKept, WasOn, WasCloned, Values, WasValues
<1>2. PICK j \in Named(cmd.tgt, was.ifs[i].sub) : Values(j) = WasValues(i)
  BY <1>1 DEF CloneLeft
<1>3. j \in InUse(ifs) /\ ifs[j].port = cmd.tgt /\ ifs[j].sub = was.ifs[i].sub
  BY DEF Named
<1>4. IdOf(cmd.tgt, was.ifs[i].sub) = j
  BY <1>0, <1>3, IdOfInUse
<1>5. i # None /\ j # None
  BY <1>0, <1>1, <1>3, InterfacesInUse, NoneAssumption DEF TablesOK
<1>6. \A k \in Named(cmd.tgt, was.ifs[i].sub) : k = j
  BY <1>0, <1>3 DEF Named, NamesAreUnique
<1>7. \A ip \in IpsOn(i) : \E other \in IpsOn(j) : SameAddress(ip, other)
  BY <1>1, <1>6 DEF CloneLeft
<1>8. \A other \in IpsOn(j) : \E ip \in IpsOn(i) : SameAddress(ip, other)
  BY <1>1, <1>2 DEF CloneLeft
<1>9. {<<ips[ip].addr, ips[ip].vrf>> : ip \in IpsOn(i)} = {<<ips[ip].addr, ips[ip].vrf>> : ip \in IpsOn(j)}
  BY <1>7, <1>8 DEF SameAddress
<1>10. ASSUME NEW ip \in IpsOn(i) PROVE Place(ip) = Was(ip)
  <2>1. ip \in InUse(ips) /\ ips[ip].on = i /\ ip \in InUse(was.ips) /\ was.ips[ip].on = i
    BY DEF CloneKept, IpsOn
  <2>2. Place(ip) = <<ifs[i].port, ifs[i].sub>>
    BY <1>5, <2>1, PlaceIs
  <2>3. Was(ip) = <<was.ifs[i].port, was.ifs[i].sub>>
    BY <1>5, <2>1, ExistsInUse DEF Was, PlaceIn
  <2> QED BY <1>1, <2>2, <2>3
<1> QED BY <1>1, <1>2, <1>4, <1>5, <1>9, <1>10

-----------------------------------------------------------------------------
\* Success means done: the four commands together.

LEMMA KeptAtFirst ==
  NetBoxOK /\ was = netbox => ZapKept /\ MigrateKept /\ CableKept /\ CloneKept /\ SetKept
<1> SUFFICES ASSUME NetBoxOK, was = netbox
             PROVE  ZapKept /\ MigrateKept /\ CableKept /\ CloneKept /\ SetKept
  OBVIOUS
<1>1. was.ifs = ifs /\ was.ips = ips /\ was.at = at
  BY DEF netbox
<1>2. InUse(was.ifs) = InUse(ifs) /\ InUse(was.ips) = InUse(ips)
  BY <1>1
<1>3. ZapKept
  BY <1>1, <1>2 DEF ZapKept
<1>4. MigrateKept
  BY <1>1, <1>2 DEF MigrateKept, WasOn
<1>5. CloneKept
  BY <1>1, <1>2 DEF CloneKept, WasOn
<1> QED BY <1>1, <1>3, <1>4, <1>5 DEF CableKept, SetKept

\* As long as nothing is written, what is kept and what is left stay.
LEMMA KeptStays ==
  ASSUME ifs' = ifs, ips' = ips, at' = at, was' = was, script' = script
  PROVE  /\ ZapKept => ZapKept'
         /\ MigrateKept => MigrateKept'
         /\ CableKept => CableKept'
         /\ CloneKept => CloneKept'
         /\ SetKept => SetKept'
<1>1. cmd' = cmd
  BY DEF cmd
<1>2. /\ InUse(ifs)' = InUse(ifs) /\ InUse(ips)' = InUse(ips)
      /\ \A port, n : Named(port, n)' = Named(port, n)
      /\ InUse(was.ifs)' = InUse(was.ifs) /\ InUse(was.ips)' = InUse(was.ips)
      /\ \A port : WasOn(port)' = WasOn(port) /\ (Target(port)' <=> Target(port))
      /\ CableMoved' = CableMoved
  BY SameReads, SameWas
<1>3. ZapKept => ZapKept'
  BY <1>1, <1>2 DEF ZapKept
<1>4. MigrateKept => MigrateKept'
  BY <1>1, <1>2 DEF MigrateKept
<1>5. CloneKept => CloneKept'
  BY <1>1, <1>2 DEF CloneKept
<1>6. SetKept => SetKept'
  BY <1>1, <1>2 DEF SetKept, WasTarget, Retyped
<1> QED BY <1>2, <1>3, <1>4, <1>5, <1>6 DEF CableKept

LEMMA LeftStays ==
  ASSUME ifs' = ifs, ips' = ips, at' = at, was' = was, script' = script, works' = works
  PROVE  /\ ZapLeft => ZapLeft'
         /\ MigrateLeft => MigrateLeft'
         /\ CableLeft => CableLeft'
         /\ CloneLeft => CloneLeft'
         /\ SetLeft => SetLeft'
<1>1. cmd' = cmd
  BY DEF cmd
<1>2. /\ InUse(ifs)' = InUse(ifs) /\ InUse(ips)' = InUse(ips)
      /\ \A port, n : Named(port, n)' = Named(port, n)
      /\ \A i : IpsOn(i)' = IpsOn(i) /\ Values(i)' = Values(i)
      /\ InUse(was.ifs)' = InUse(was.ifs) /\ InUse(was.ips)' = InUse(was.ips)
      /\ \A port : WasOn(port)' = WasOn(port) /\ (Target(port)' <=> Target(port))
      /\ \A i : WasValues(i)' = WasValues(i) /\ Blanked(i)' = Blanked(i)
      /\ \A i : WasCloned(i)' <=> WasCloned(i)
      /\ CableMoved' = CableMoved
      /\ \A v, w : Sooner(v, w)' <=> Sooner(v, w)
      /\ \A ip, other : SameAddress(ip, other)' <=> SameAddress(ip, other)
  BY SameReads, SameWas DEF Sooner, SameAddress
<1>3. ZapLeft => ZapLeft'
  BY <1>1, <1>2 DEF ZapLeft
<1>4. MigrateLeft => MigrateLeft'
  BY <1>1, <1>2 DEF MigrateLeft
<1>5. CableLeft => CableLeft'
  BY <1>1, <1>2 DEF CableLeft, ModifyCable
<1>6. CloneLeft => CloneLeft'
  BY <1>1, <1>2 DEF CloneLeft
<1>7. SetLeft => SetLeft'
  BY <1>1, <1>2 DEF SetLeft, WasTarget, Retyped
<1> QED BY <1>3, <1>4, <1>5, <1>6, <1>7

LEMMA NextDoneInv ==
  ASSUME EndsDoNotClash
  PROVE  TypeInv /\ TypeInv' /\ DoneInv /\ [Next]_vars => DoneInv'
<1> SUFFICES ASSUME TypeInv, TypeInv', DoneInv, [Next]_vars, Alone'
             PROVE  ZapInv' /\ MigrateInv' /\ CableInv' /\ CloneInv' /\ SetInv'
  BY DEF DoneInv
<1>0. /\ NetBoxOK /\ IsNetBox(was) /\ script \in Seq(Command) \ {<< >>}
      /\ edits \in Nat
      /\ \A w \in works : IsWork(w)
  BY DEF TypeInv, ScalarsOK
<1>a. edits' = edits => ZapInv /\ MigrateInv /\ CableInv /\ CloneInv /\ SetInv
  BY DEF Alone, DoneInv
<1>b. ASSUME script' = script, was' = was
      PROVE  /\ cmd' = cmd /\ (Zapping' <=> Zapping) /\ (Migrating' <=> Migrating)
             /\ (Cloning' <=> Cloning) /\ (Setting' <=> Setting)
  BY <1>b DEF cmd, Zapping, Migrating, Cloning, Setting
<1>1. CASE Plan
  <2>1. /\ ifs' = ifs /\ ips' = ips /\ at' = at /\ script' = script /\ was' = was /\ edits' = edits
        /\ (pc' = "failed") \/ (pc' = "do" /\ ~Fails /\ works' = ThePlan)
    BY <1>1 DEF Plan, rest
  <2>2. ZapInv'
    BY <1>0, <1>a, <1>b, <2>1, KeptStays, ZapBegun DEF ZapInv
  <2>3. MigrateInv'
    BY <1>0, <1>a, <1>b, <2>1, KeptStays, MigrateBegun DEF MigrateInv
  <2>4. CableInv'
    BY <1>0, <1>a, <1>b, <2>1, KeptStays, CableBegun DEF CableInv
  <2>5. CloneInv'
    BY <1>0, <1>a, <1>b, <2>1, KeptStays, CloneBegun DEF CloneInv
  <2>6. SetInv'
    BY <1>0, <1>a, <1>b, <2>1, KeptStays, SetBegun DEF SetInv
  <2> QED BY <2>2, <2>3, <2>4, <2>5, <2>6
<1>2. ASSUME NEW w \in works, DoWork(w)
      PROVE  ZapInv' /\ MigrateInv' /\ CableInv' /\ CloneInv' /\ SetInv'
  <2>1. /\ pc = "do" /\ script' = script /\ was' = was /\ edits' = edits /\ IsWork(w)
    BY <1>0, <1>2 DEF DoWork, rest
  <2>2. ZapInv'
    BY <1>0, <1>2, <1>a, <1>b, <2>1, ZapGoesOn DEF ZapInv
  <2>3. MigrateInv'
    BY <1>0, <1>2, <1>a, <1>b, <2>1, MigrateGoesOn DEF MigrateInv
  <2>4. CableInv'
    BY <1>0, <1>2, <1>a, <1>b, <2>1, CableGoesOn DEF CableInv
  <2>5. CloneInv'
    BY <1>0, <1>2, <1>a, <1>b, <2>1, CloneGoesOn DEF CloneInv
  <2>6. SetInv'
    BY <1>0, <1>2, <1>a, <1>b, <2>1, SetGoesOn DEF SetInv
  <2> QED BY <2>2, <2>3, <2>4, <2>5, <2>6
<1>3. ASSUME NEW w \in works, WorkFails(w) PROVE pc' \notin {"do", "done"}
  BY <1>3 DEF WorkFails
<1>4. CASE (\E w \in works : WorkFails(w)) \/ Stop \/ RunAgain
  <2>1. /\ ifs' = ifs /\ ips' = ips /\ at' = at /\ script' = script /\ was' = was /\ edits' = edits
        /\ pc' \notin {"do", "done"}
    BY <1>3, <1>4 DEF WorkFails, Stop, RunAgain, rest
  <2> QED
    BY <1>a, <1>b, <2>1, KeptStays DEF ZapInv, MigrateInv, CableInv, CloneInv, SetInv
<1>5. CASE Finish \/ UNCHANGED vars
  <2>1. /\ ifs' = ifs /\ ips' = ips /\ at' = at /\ script' = script /\ was' = was /\ edits' = edits
        /\ works' = works /\ (pc' \in {"do", "done"} => pc \in {"do", "done"})
    BY <1>5 DEF Finish, vars, rest
  <2> QED
    BY <1>a, <1>b, <2>1, KeptStays, LeftStays DEF ZapInv, MigrateInv, CableInv, CloneInv, SetInv
<1>6. CASE NextCommand
  <2>1. pc' = "plan" /\ (was = netbox)'
    BY <1>6 DEF NextCommand, netbox
  <2>2. NetBoxOK'
    BY DEF TypeInv
  <2>3. (NetBoxOK /\ was = netbox => ZapKept /\ MigrateKept /\ CableKept /\ CloneKept /\ SetKept)'
    BY KeptAtFirst, PTL
  <2> QED BY <2>1, <2>2, <2>3 DEF ZapInv, MigrateInv, CableInv, CloneInv, SetInv
<1>7. ASSUME NEW i, (\E ip : SomeoneAssigns(ip, i)) \/ SomeoneDeletes(i) PROVE FALSE
  <2>1. edits' = edits + 1
    BY <1>7 DEF SomeoneAssigns, SomeoneDeletes
  <2> QED BY <1>0, <2>1 DEF Alone
<1> QED BY <1>1, <1>2, <1>4, <1>5, <1>6, <1>7 DEF Next

LEMMA DoneImplies == TypeInv /\ LooseInv /\ DoneInv => SuccessMeansDone
<1> SUFFICES ASSUME TypeInv, LooseInv, DoneInv, Succeeded
             PROVE  /\ Zapping => ZapLeavesThePort
                    /\ Migrating => MigrateMoves
                    /\ MigrateMovesTheCable
                    /\ Cloning => CloneCopies
                    /\ Setting => TypeIsSet
  BY DEF SuccessMeansDone
<1>1. /\ NetBoxOK /\ IsNetBox(was) /\ script \in Seq(Command) \ {<< >>} /\ works = {}
      /\ NoAddressLeftLoose
      /\ ZapInv /\ MigrateInv /\ CableInv /\ CloneInv /\ SetInv /\ pc = "done"
  BY DEF TypeInv, ScalarsOK, LooseInv, DoneInv, Succeeded
<1>2. Zapping => ZapLeavesThePort
  BY <1>1, ZapIsDone DEF ZapInv
<1>3. Migrating => MigrateMoves
  BY <1>1, MigrateIsDone DEF MigrateInv, MigrateMoves
<1>4. MigrateMovesTheCable
  BY <1>1, CableIsDone DEF CableInv, MigrateMovesTheCable
<1>5. Cloning => CloneCopies
  BY <1>1, CloneIsDone DEF CloneInv
<1>6. Setting => TypeIsSet
  BY <1>1, SetIsDone DEF SetInv
<1> QED BY <1>2, <1>3, <1>4, <1>5, <1>6

LEMMA InitDoneInv == Init => DoneInv
<1> SUFFICES ASSUME Init PROVE ZapInv /\ MigrateInv /\ CableInv /\ CloneInv /\ SetInv
  BY DEF DoneInv
<1>1. NetBoxOK /\ was = netbox /\ pc = "plan"
  BY InitTypeInv DEF Init, TypeInv
<1> QED BY <1>1, KeptAtFirst DEF ZapInv, MigrateInv, CableInv, CloneInv, SetInv

\* A command that succeeds, if need be after runs that stopped, has done what its
\* help says: zapped ports keep their type and cable and nothing else; what was on
\* the source is on the target, and the cable with it; each subinterface and each
\* address is cloned; the types are set.  For any ports, trees, addresses and
\* cablings, any scripts and any number of runs.
THEOREM SuccessIsDone ==
  ASSUME EndsDoNotClash
  PROVE  Spec => []SuccessMeansDone
<1>1. Init => DoneInv
  BY InitDoneInv
<1>2. TypeInv /\ TypeInv' /\ DoneInv /\ [Next]_vars => DoneInv'
  BY NextDoneInv
<1> QED
  BY <1>1, <1>2, TypeInvariance, LooseInvariance, DoneImplies, PTL DEF Spec

-----------------------------------------------------------------------------
\* Given again: what a command accepts, and what is left as it wants it.

Self == Migrating /\ cmd.src = cmd.tgt
Taken(i) == ifs[i].port = cmd.src /\ (ifs[i].sub = 0 \/ ifs[i].conf # NotCloned)
SameAddr(ip, other) == ips[ip].addr = ips[other].addr

\* The addresses that a clone-interface finds: no IPv6, none twice on an interface.
NoIPv6 == \A ip \in InUse(ips) : ips[ip].on # None => ips[ip].addr \notin V6
OnceOnEach ==
    \A ip, other \in InUse(ips) :
        ips[ip].on # None /\ ips[ip].on = ips[other].on /\ SameAddr(ip, other) => ip = other
PlainInv ==
    Cloning => (SourceIsIPv4 => NoIPv6) /\ (AddressedOnce => OnceOnEach)

\* What plan() accepts, of zap-interface, set-interface-type and clone-interface.
ZapFit == \A port \in Range(cmd.targets) : TreeIsSound(port)
SetFit == \A port \in Range(cmd.targets) : Named(port, 0) # {}
CloneFits(i, j) ==
    /\ IpsOn(i) # {} => ifs[i].vrf # None
    /\ \A other \in IpsOn(j) : \E ip \in IpsOn(i) : SameAddr(ip, other)
    /\ \A ip \in IpsOn(i), other \in IpsOn(j) : SameAddr(ip, other) => ~Differ(ip, other)
CloneFit ==
    /\ TreeIsSound(cmd.src) /\ TreeIsSound(cmd.tgt)
    /\ \A j \in InUse(ifs) : ifs[j].port = cmd.tgt => Named(cmd.src, ifs[j].sub) # {}
    /\ \A i \in InUse(ifs) : Taken(i) =>
           /\ Named(cmd.tgt, ifs[i].sub) = {} => ifs[i].vrf # None
           /\ \A j \in Named(cmd.tgt, ifs[i].sub) : CloneFits(i, j)
Fit == (Zapping => ZapFit) /\ (Setting => SetFit) /\ (Cloning /\ OnceOnEach => CloneFit)

\* The works of clone-interface.
CloneTodo ==
    \A w \in works :
        /\ w.op = "CreateInterface" =>
               /\ w.parent = IdOf(cmd.tgt, 0) /\ w.parent # None /\ w.sub # 0
               /\ \E i \in InUse(ifs) : Taken(i) /\ ifs[i].sub = w.sub /\ ifs[i].vrf # None
                                 /\ w.values = Values(i)
        /\ w.op = "AssignIPAddress" =>
               /\ \A j \in Named(cmd.tgt, w.sub) : \A other \in IpsOn(j) : ips[other].addr # w.addr
               /\ \A v \in works : v.op = "AssignIPAddress" /\ v.sub = w.sub /\ v.addr = w.addr => v = w
               /\ \E i \in InUse(ifs) : Taken(i) /\ ifs[i].sub = w.sub
                      /\ \E ip \in IpsOn(i) : ips[ip].addr = w.addr /\ ips[ip].vrf = w.vrf
        /\ w.op = "ModifyIPAddress" =>
               \E i \in InUse(ifs) : Taken(i) /\ w.id \in IpsOn(i)
                   /\ \A j \in Named(cmd.tgt, ifs[i].sub) : \A other \in IpsOn(j) :
                          SameAddr(w.id, other) => ips[other].anycast
TodoInv == Cloning /\ OnceOnEach /\ pc \in {"do", "done"} => CloneTodo

\* The interface is there or will be when an address is put on it.
Findable(w) ==
    w.op \in {"ReassignIPAddress", "AssignIPAddress"} =>
        \/ w.op = "AssignIPAddress" /\ w.id # None
        \/ Named(w.port, w.sub) # {}
        \/ \E t \in works : /\ t.op = "CreateInterface" /\ t.port = w.port /\ t.sub = w.sub
                            /\ Sooner(t, w)
FindInv == pc = "do" => \A w \in works : Findable(w)

\* migrate-interface of a port to itself.
SelfLeft ==
    \A w \in works :
        \/ /\ w.op = "ModifyCable" /\ w.port = cmd.tgt /\ w.end = at[cmd.tgt] /\ at[cmd.tgt] # None
           /\ \A t \in Ports \cup OtherEnds : at[t] = w.end => t = cmd.tgt
        \/ /\ w.op = "ReassignIPAddress" /\ w.port = cmd.tgt /\ w.sub = 0
           /\ w.id \in InUse(ips) /\ ips[w.id].on \in Named(cmd.tgt, 0)
SelfInv == Self => netbox = was /\ (pc \in {"do", "done"} => SelfLeft)
\* ... of a source without a cable.
NoCableInv ==
    Migrating /\ was.at[cmd.src] = None =>
        at = was.at /\ (pc \in {"do", "done"} => \A w \in works : w.op # "ModifyCable")
\* ... of a port to another one.
SourceInv ==
    Migrating /\ cmd.src # cmd.tgt =>
        \A i \in InUse(ifs) : ifs[i].port = cmd.src => i \in WasOn(cmd.src) /\ ifs[i] = was.ifs[i]

\* Nothing is left to do.
ZapSettled ==
    \A i \in InUse(ifs) : ifs[i].port \in Range(cmd.targets) =>
        ifs[i].sub = 0 /\ Values(i) = ZappedValues(i) /\ IpsOn(i) = {}
SetSettled ==
    \A i \in InUse(ifs) : ifs[i].port \in Range(cmd.targets) /\ ifs[i].sub = 0 => ifs[i].kind = cmd.kind
CloneSettled ==
    \A i \in InUse(ifs) : Taken(i) =>
        \E j \in Named(cmd.tgt, ifs[i].sub) :
            /\ Values(j) = Values(i)
            /\ \A ip \in IpsOn(i) : \E other \in IpsOn(j) : SameAddr(ip, other)
MigrateSettled ==
    /\ at[cmd.src] = None
    /\ \A i \in InUse(ifs) : ifs[i].port = cmd.src =>
           /\ ifs[i].sub = 0 /\ IpsOn(i) = {}
           /\ \E j \in Named(cmd.tgt, 0) : Values(j) = Values(i)
Settled ==
    /\ Zapping => ZapSettled
    /\ Setting => SetSettled
    /\ Cloning => CloneSettled
    /\ Migrating => Self \/ MigrateSettled

Begun == pc \in {"do", "stopped", "refused", "done"} \/ netbox # was \/ before = cmd
AfterZap == Migrating /\ run = 1 /\ before = Zap(<<cmd.tgt>>)
WaitsInv ==
    /\ Begun => Fit
    /\ \A port \in Ports : before = Zap(<<port>>) /\ run = 1 /\ pc = "plan" =>
           TreeIsSound(port) /\ SubsOf(port) = {}
    /\ pc = "failed" =>
           /\ Resumable => netbox = was /\ before # cmd
           /\ AfterZap => ~TreeIsSound(cmd.src) \/ CableForks(cmd.src)
    /\ before = cmd => netbox = was /\ Settled /\ (pc \in {"do", "done"} => Self \/ works = {})
AgainInv == Alone => WaitsInv /\ PlainInv /\ TodoInv /\ FindInv /\ SelfInv /\ NoCableInv /\ SourceInv

\* As long as nothing is written, all of this stays.
LEMMA SameTrees ==
  ASSUME ifs' = ifs, ips' = ips, at' = at
  PROVE  /\ \A port : TreeIsSound(port)' <=> TreeIsSound(port)
         /\ \A port : SubsOf(port)' = SubsOf(port)
         /\ \A port : CableForks(port)' <=> CableForks(port)
<1>1. InUse(ifs)' = InUse(ifs) /\ \A port, n : Named(port, n)' = Named(port, n)
  BY SameReads
<1>2. ASSUME NEW port, NEW n PROVE IdOf(port, n)' = IdOf(port, n)
  <2>1. Named(port, n)' = Named(port, n)
    BY <1>1
  <2> QED BY <2>1 DEF IdOf
<1>3. \A port : ByParent(port)' = ByParent(port) /\ ByName(port)' = ByName(port)
  BY <1>1, <1>2 DEF ByParent, ByName
<1>4. \A port : TreeIsSound(port)' <=> TreeIsSound(port)
  BY <1>2, <1>3 DEF TreeIsSound
<1>5. \A port : SubsOf(port)' = SubsOf(port)
  BY <1>3 DEF SubsOf
<1>6. \A port : CableForks(port)' <=> CableForks(port)
  BY DEF CableForks, Several, Plugged
<1> QED BY <1>4, <1>5, <1>6

LEMMA SameAddresses ==
  ASSUME ifs' = ifs, ips' = ips
  PROVE  /\ OnceOnEach' <=> OnceOnEach
         /\ NoIPv6' <=> NoIPv6
         /\ \A ip, other : SameAddr(ip, other)' <=> SameAddr(ip, other)
         /\ \A i, j : CloneFits(i, j)' <=> CloneFits(i, j)
<1>1. InUse(ips)' = InUse(ips) /\ \A i : IpsOn(i)' = IpsOn(i)
  BY SameReads
<1>2. \A ip, other : /\ SameAddr(ip, other)' <=> SameAddr(ip, other)
                     /\ Differ(ip, other)' <=> Differ(ip, other)
  BY DEF SameAddr, Differ
<1>3. OnceOnEach' <=> OnceOnEach
  BY <1>1, <1>2 DEF OnceOnEach
<1>4. NoIPv6' <=> NoIPv6
  BY <1>1 DEF NoIPv6
<1>5. \A i, j : CloneFits(i, j)' <=> CloneFits(i, j)
  BY <1>1, <1>2 DEF CloneFits
<1> QED BY <1>2, <1>3, <1>4, <1>5

LEMMA FitStays ==
  ASSUME ifs' = ifs, ips' = ips, at' = at, cmd' = cmd
  PROVE  (Fit => Fit') /\ (Settled => Settled')
<1>1. /\ (Zapping' <=> Zapping) /\ (Setting' <=> Setting)
      /\ (Cloning' <=> Cloning) /\ (Migrating' <=> Migrating) /\ (Self' <=> Self)
      /\ \A i : Taken(i)' <=> Taken(i)
  <2>1. /\ (Zapping' <=> Zapping) /\ (Setting' <=> Setting)
        /\ (Cloning' <=> Cloning) /\ (Migrating' <=> Migrating)
    BY DEF Zapping, Setting, Cloning, Migrating
  <2>2. Self' <=> Self
    BY <2>1 DEF Self
  <2>3. \A i : Taken(i)' <=> Taken(i)
    BY DEF Taken
  <2> QED BY <2>1, <2>2, <2>3
<1>2. /\ InUse(ifs)' = InUse(ifs) /\ \A port, n : Named(port, n)' = Named(port, n)
      /\ \A i : IpsOn(i)' = IpsOn(i) /\ Values(i)' = Values(i)
  BY SameReads
<1>3. \A port : TreeIsSound(port)' <=> TreeIsSound(port)
  BY SameTrees
<1>4. /\ OnceOnEach' <=> OnceOnEach
      /\ \A ip, other : SameAddr(ip, other)' <=> SameAddr(ip, other)
      /\ \A i, j : CloneFits(i, j)' <=> CloneFits(i, j)
  BY SameAddresses
<1>5. ZapFit => ZapFit'
  BY <1>3 DEF ZapFit
<1>6. SetFit => SetFit'
  BY <1>2 DEF SetFit
<1>7. CloneFit => CloneFit'
  <2> SUFFICES ASSUME CloneFit PROVE CloneFit'
    OBVIOUS
  <2>1. TreeIsSound(cmd.src)' /\ TreeIsSound(cmd.tgt)'
    BY <1>3 DEF CloneFit
  <2> QED BY <1>1, <1>2, <1>4, <2>1 DEF CloneFit
<1>8. ZapSettled => ZapSettled'
  BY <1>2 DEF ZapSettled, ZappedValues
<1>9. SetSettled => SetSettled'
  BY <1>2 DEF SetSettled
<1>10. CloneSettled => CloneSettled'
  BY <1>1, <1>2, <1>4 DEF CloneSettled
<1>11. MigrateSettled => MigrateSettled'
  BY <1>2 DEF MigrateSettled
<1> QED
  BY <1>1, <1>4, <1>5, <1>6, <1>7, <1>8, <1>9, <1>10, <1>11 DEF Fit, Settled

LEMMA TodoStays ==
  ASSUME ifs' = ifs, ips' = ips, at' = at, cmd' = cmd, works' = works
  PROVE  /\ CloneTodo => CloneTodo'
         /\ SelfLeft => SelfLeft'
         /\ \A w : Findable(w) => Findable(w)'
<1>1. /\ InUse(ifs)' = InUse(ifs) /\ \A port, n : Named(port, n)' = Named(port, n)
      /\ InUse(ips)' = InUse(ips)
      /\ \A i : IpsOn(i)' = IpsOn(i) /\ Values(i)' = Values(i) /\ (Taken(i)' <=> Taken(i))
      /\ \A ip, other : SameAddr(ip, other)' <=> SameAddr(ip, other)
      /\ \A v, w : Sooner(v, w)' <=> Sooner(v, w)
  BY SameReads, SameAddresses DEF Taken, Sooner
<1>2. ASSUME NEW port, NEW n PROVE IdOf(port, n)' = IdOf(port, n)
  <2>1. Named(port, n)' = Named(port, n)
    BY <1>1
  <2> QED BY <2>1 DEF IdOf
<1>3. CloneTodo => CloneTodo'
  BY <1>1, <1>2 DEF CloneTodo
<1>4. SelfLeft => SelfLeft'
  BY <1>1 DEF SelfLeft
<1>5. \A w : Findable(w) => Findable(w)'
  BY <1>1 DEF Findable
<1> QED BY <1>3, <1>4, <1>5

\* A tree stays sound, if what is created is a child of its port and no port is deleted.
LEMMA TreesStay ==
  ASSUME TablesOK, NamesAreUnique, TablesOK', NEW w, InterfacesAfter(w), InterfacesDone(w),
         w.op = "CreateInterface" =>
             w.parent = IdOf(w.port, 0) /\ w.parent # None /\ w.sub # 0,
         w.op = "DeleteInterface" => ifs[w.id].sub # 0,
         NEW port, TreeIsSound(port)
  PROVE  TreeIsSound(port)' /\ IdOf(port, 0)' = IdOf(port, 0)
<1> DEFINE p == IdOf(port, 0)
<1>1. p \in InUse(ifs) /\ ifs[p].port = port /\ ifs[p].sub = 0 /\ p # None
  BY SoundTree
<1>2. p \in InUse(ifs)' /\ ifs'[p].port = port /\ ifs'[p].sub = 0
  BY <1>1 DEF InterfacesDone
<1>3. ASSUME NEW i \in InUse(ifs)', ifs'[i].port = port, ifs'[i].sub = 0 PROVE i = p
  <2>1. i \in InUse(ifs) /\ ifs[i].port = port /\ ifs[i].sub = 0
    BY <1>3 DEF InterfacesDone
  <2> QED BY <1>1, <2>1 DEF NamesAreUnique
<1>4. Named(port, 0)' = {p}
  BY <1>2, <1>3 DEF Named
<1>5. IdOf(port, 0)' = p
  <2>1. (CHOOSE i \in {p} : TRUE) = p
    OBVIOUS
  <2> QED BY <1>4, <2>1 DEF IdOf
<1>6. ASSUME NEW i \in InUse(ifs)'
      PROVE  ifs'[i].parent = p <=> ifs'[i].port = port /\ ifs'[i].sub # 0
  <2>1. CASE i \in InUse(ifs) /\ ifs'[i].port = ifs[i].port /\ ifs'[i].sub = ifs[i].sub
                              /\ ifs'[i].parent = ifs[i].parent
    BY <2>1, SoundTree DEF ByParent
  <2>2. CASE /\ w.op = "CreateInterface" /\ ifs'[i].parent = w.parent
             /\ ifs'[i].port = w.port /\ ifs'[i].sub = w.sub
    <3>1. w.parent \in Named(w.port, 0)
      BY <2>2, IdOfName
    <3>2. w.port = port => w.parent = p
      BY <2>2
    <3>3. w.parent = p => w.port = port
      BY <1>1, <3>1 DEF Named
    <3> QED BY <2>2, <3>2, <3>3
  <2> QED BY <1>6, <2>1, <2>2 DEF InterfacesDone, InterfacesAfter
<1>7. ByParent(port)' = ByName(port)'
  BY <1>5, <1>6 DEF ByParent, ByName
<1>8. IdOf(port, 0)' # None
  BY <1>1, <1>5
<1> QED BY <1>5, <1>7, <1>8 DEF TreeIsSound

-----------------------------------------------------------------------------
\* zap-interface and set-interface-type, given again.

LEMMA ZapStaysFit ==
  ASSUME NetBoxOK, NetBoxOK', ZapFit, ZapLeft, NEW w \in works, IsWork(w), DoWork(w)
  PROVE  ZapFit'
<1>0. /\ TablesOK /\ NamesAreUnique /\ TablesOK'
      /\ Resolves(w) /\ Accepts(w) /\ Execute(w) /\ cmd' = cmd
  BY DEF NetBoxOK, DoWork, rest, cmd
<1>1. InterfacesAfter(w) /\ InterfacesDone(w)
  BY <1>0, WorkAfter, WorkDoes
<1>2. w.op # "CreateInterface" /\ (w.op = "DeleteInterface" => ifs[w.id].sub # 0)
  BY <1>1 DEF ZapLeft, InterfacesDone
<1>3. \A port \in Range(cmd.targets) : TreeIsSound(port)'
  BY <1>0, <1>1, <1>2, TreesStay DEF ZapFit
<1> QED BY <1>0, <1>3 DEF ZapFit

LEMMA ZapSettles ==
  ASSUME NetBoxOK, ZapKept, ZapLeft, works = {}
  PROVE  ZapSettled
<1> SUFFICES ASSUME NEW i \in InUse(ifs), ifs[i].port \in Range(cmd.targets)
             PROVE  ifs[i].sub = 0 /\ Values(i) = ZappedValues(i) /\ IpsOn(i) = {}
  BY DEF ZapSettled
<1>1. Target(ifs[i].port)
  BY DEF Target
<1>2. ifs[i].sub = 0
  BY <1>1 DEF ZapLeft
<1>3. Values(i) = Blanked(i) /\ IpsOn(i) = {}
  BY <1>1, <1>2 DEF ZapLeft
<1>4. ZappedValues(i) = Blanked(i)
  BY DEF ZapKept, ZappedValues, Blanked
<1> QED BY <1>2, <1>3, <1>4

LEMMA ZapHasSettled ==
  ASSUME NetBoxOK, cmd.targets \in Seq(Ports), ~ZapFails(cmd.targets), ZapSettled
  PROVE  ZapPlan(cmd.targets) = {}
<1>1. ASSUME NEW w \in ZapPlan(cmd.targets) PROVE FALSE
  <2>1. PICK k \in DOMAIN cmd.targets, i \in InUse(ifs) :
           ifs[i].port = cmd.targets[k] /\ ZapWork(w, k, i)
    BY <1>1, ZapPlanned DEF NetBoxOK
  <2>2. ifs[i].sub = 0 /\ Values(i) = ZappedValues(i) /\ IpsOn(i) = {}
    BY <2>1 DEF ZapSettled, Range
  <2> QED BY <2>1, <2>2 DEF ZapWork
<1> QED BY <1>1

\* What zap-interface has done is a port without subinterfaces.
LEMMA ZapLeavesSound ==
  ASSUME NetBoxOK, ZapFit, ZapSettled, NEW port \in Range(cmd.targets)
  PROVE  TreeIsSound(port) /\ SubsOf(port) = {}
<1>1. TreeIsSound(port)
  BY DEF ZapFit
<1>2. ByParent(port) = {}
  BY <1>1, SoundTree DEF ZapSettled, NetBoxOK
<1> QED BY <1>1, <1>2 DEF SubsOf

LEMMA SetStaysFit ==
  ASSUME NetBoxOK, SetFit, SetLeft, NEW w \in works, IsWork(w), DoWork(w)
  PROVE  SetFit'
<1>0. Resolves(w) /\ Accepts(w) /\ Execute(w) /\ cmd' = cmd
  BY DEF DoWork, rest, cmd
<1>1. InterfacesDone(w) /\ w.op = "ModifyInterface"
  BY <1>0, WorkDoes DEF SetLeft
<1>2. \A port : Named(port, 0) # {} => Named(port, 0)' # {}
  BY <1>1 DEF InterfacesDone, Named
<1> QED BY <1>0, <1>2 DEF SetFit

LEMMA SetSettles ==
  ASSUME NetBoxOK, IsNetBox(was), SetKept, SetLeft, works = {},
         script \in Seq(Command) \ {<< >>}, Setting
  PROVE  SetSettled
<1> SUFFICES ASSUME NEW i \in InUse(ifs), ifs[i].port \in Range(cmd.targets), ifs[i].sub = 0
             PROVE  ifs[i].kind = cmd.kind
  BY DEF SetSettled
<1>0. /\ i \in Ids /\ cmd.kind \in Kinds
      /\ InUse(was.ifs) = {j \in Ids : was.ifs[j] \in Interface}
      /\ InUse(ifs) = {j \in Ids : ifs[j] \in Interface}
  BY InterfacesInUse, WasInUse, CommandIs DEF NetBoxOK, TablesOK
<1>1. \/ WasTarget(i)
      \/ ifs[i] = was.ifs[i]
  BY <1>0 DEF SetKept
<1>2. WasTarget(i)
  BY <1>0, <1>1 DEF WasTarget, Target
<1>3. ifs[i] = Retyped(i) /\ was.ifs[i] \in Interface
  BY <1>0, <1>2 DEF SetLeft, WasTarget
<1>4. Retyped(i).kind = cmd.kind
  BY <1>0, <1>3, RetypedIs DEF Retyped
<1> QED BY <1>3, <1>4

LEMMA SetHasSettled ==
  ASSUME NetBoxOK, ~SetTypeFails(cmd.targets), SetSettled
  PROVE  SetTypePlan(cmd.targets, cmd.kind) = {}
<1>1. ASSUME NEW w \in SetTypePlan(cmd.targets, cmd.kind) PROVE FALSE
  <2>1. PICK k \in DOMAIN cmd.targets, i \in InUse(ifs) :
           ifs[i].port = cmd.targets[k] /\ ifs[i].sub = 0 /\ SetTypeWork(w, k, i, cmd.kind)
    BY <1>1, SetTypePlanned DEF NetBoxOK
  <2> QED BY <2>1 DEF SetSettled, SetTypeWork, Range
<1> QED BY <1>1

-----------------------------------------------------------------------------
\* The interface that an address is put on is found.

LEMMA FindBegins ==
  ASSUME NetBoxOK, script \in Seq(Command) \ {<< >>}, ~Fails,
         ifs' = ifs, ips' = ips, works' = ThePlan, NEW w \in works'
  PROVE  Findable(w)'
<1>0. /\ TablesOK /\ NamesAreUnique /\ (Zapping \/ Migrating \/ Cloning \/ Setting)
      /\ Zapping => cmd.targets \in Seq(Ports)
      /\ \A port, n : Named(port, n)' = Named(port, n)
      /\ \A v, u : Sooner(v, u)' <=> Sooner(v, u)
  BY CommandIs, SameReads DEF NetBoxOK, Sooner
<1> SUFFICES ASSUME w.op \in {"ReassignIPAddress", "AssignIPAddress"}
             PROVE  \/ w.op = "AssignIPAddress" /\ w.id # None
                    \/ Named(w.port, w.sub) # {}
                    \/ \E t \in works' : /\ t.op = "CreateInterface" /\ t.port = w.port /\ t.sub = w.sub
                                         /\ Sooner(t, w)
  BY <1>0 DEF Findable
<1>1. CASE Zapping
  <2>1. ~ZapFails(cmd.targets) /\ w \in ZapPlan(cmd.targets)
    BY <1>1 DEF Fails, ThePlan, Zapping, Migrating, Cloning, Setting
  <2>2. PICK k \in DOMAIN cmd.targets, i \in InUse(ifs) : ZapWork(w, k, i)
    BY <1>0, <1>1, <2>1, ZapPlanned
  <2> QED BY <2>2 DEF ZapWork, DeleteIPAddress, DeleteInterface, ModifyInterface
<1>2. CASE Setting
  <2>1. ~SetTypeFails(cmd.targets) /\ w \in SetTypePlan(cmd.targets, cmd.kind)
    BY <1>2 DEF Fails, ThePlan, Zapping, Migrating, Cloning, Setting
  <2>2. PICK k \in DOMAIN cmd.targets, i \in InUse(ifs) : SetTypeWork(w, k, i, cmd.kind)
    BY <1>0, <2>1, SetTypePlanned
  <2> QED BY <2>2 DEF SetTypeWork, ModifyInterface
<1>3. CASE Migrating
  <2>1. ~MigrateFails(cmd.src, cmd.tgt) /\ works' = MigratePlan(cmd.src, cmd.tgt)
    BY <1>3 DEF Fails, ThePlan, Zapping, Migrating, Cloning, Setting
  <2>2. PICK i \in InUse(ifs) : ifs[i].port = cmd.src /\ MigrateWork(w, cmd.src, cmd.tgt, i)
    BY <1>0, <2>1, MigratePlanned
  <2>3. PICK ip \in IpsOn(i) : w = ReassignIPAddress(<<2, ifs[i].sub, 2, ip>>, ip, cmd.tgt, ifs[i].sub)
    BY <2>2 DEF MigrateWork, ModifyCable, ModifyInterface, CreateInterface, DeleteInterface
  <2>4. w.port = cmd.tgt /\ w.sub = ifs[i].sub /\ w.nr = <<2, ifs[i].sub, 2, ip>>
    BY <2>3 DEF ReassignIPAddress
  <2>5. CASE ifs[i].sub = 0
    <3>1. Named(cmd.tgt, 0) # {}
      BY <1>0, <2>1, IdOfName DEF MigrateFails, TreeIsSound
    <3> QED BY <2>4, <2>5, <3>1
  <2>6. CASE ifs[i].sub # 0
    <3> DEFINE t == CreateInterface(<<2, ifs[i].sub, 1>>, cmd.tgt, ifs[i].sub, IdOf(cmd.tgt, 0), Values(i))
    <3>0. MigrateWork(t, cmd.src, cmd.tgt, i)
      BY <2>6 DEF MigrateWork
    <3>1. t \in works'
      <4> HIDE DEF t
      <4> QED BY <1>0, <2>1, <2>2, <3>0, MigratePlanned
    <3>2. /\ t.op = "CreateInterface" /\ t.port = cmd.tgt /\ t.sub = ifs[i].sub
          /\ t.nr = <<2, ifs[i].sub, 1>>
      BY DEF CreateInterface
    <3> HIDE DEF t
    <3>3. Sooner(t, w)
      <4>1. 3 \in DOMAIN t.nr \cap DOMAIN w.nr
        BY <2>4, <3>2
      <4>2. t.nr[3] < w.nr[3] /\ \A m \in 1 .. (3 - 1) : t.nr[m] = w.nr[m]
        BY <2>4, <3>2
      <4> QED BY <4>1, <4>2 DEF Sooner
    <3> QED BY <2>4, <3>1, <3>2, <3>3
  <2> QED BY <2>5, <2>6
<1>4. CASE Cloning
  <2>1. ~CloneFails(cmd.src, cmd.tgt) /\ works' = ClonePlan(cmd.src, cmd.tgt)
    BY <1>4 DEF Fails, ThePlan, Zapping, Migrating, Cloning, Setting
  <2>2. PICK i \in InUse(ifs) : /\ ifs[i].port = cmd.src /\ (ifs[i].sub = 0 \/ ifs[i].conf # NotCloned)
                                /\ CloneWork(w, cmd.tgt, i)
    BY <1>0, <2>1, ClonePlanned
  <2> DEFINE sub == ifs[i].sub
             j == IdOf(cmd.tgt, sub)
  <2>3. PICK ip \in IpsOn(i) : w = AssignIPAddress(<<sub, 2, ip, 2>>, ip, j, cmd.tgt, sub)
    BY <2>2 DEF CloneWork, MakeAnycast, ModifyInterface, CreateInterface, Missing
  <2>4. w.op = "AssignIPAddress" /\ w.port = cmd.tgt /\ w.sub = sub /\ w.nr = <<sub, 2, ip, 2>> /\ w.id = j
    BY <2>3 DEF AssignIPAddress
  <2>5. CASE j # None
    BY <2>4, <2>5
  <2>6. CASE j = None
    <3> DEFINE t == CreateInterface(<<sub, 1>>, cmd.tgt, sub, IdOf(cmd.tgt, 0), Values(i))
    <3>1. CloneWork(t, cmd.tgt, i)
      BY <2>6 DEF CloneWork
    <3>2. t \in works'
      BY <1>0, <2>1, <2>2, <3>1, ClonePlanned
    <3>3. t.op = "CreateInterface" /\ t.port = cmd.tgt /\ t.sub = sub /\ t.nr = <<sub, 1>>
      BY DEF CreateInterface
    <3> HIDE DEF t
    <3>4. Sooner(t, w)
      <4>1. 2 \in DOMAIN t.nr \cap DOMAIN w.nr
        BY <2>4, <3>3
      <4>2. t.nr[2] < w.nr[2] /\ \A m \in 1 .. (2 - 1) : t.nr[m] = w.nr[m]
        BY <2>4, <3>3
      <4> QED BY <4>1, <4>2 DEF Sooner
    <3> QED BY <2>4, <3>2, <3>3, <3>4
  <2> QED BY <2>5, <2>6
<1> QED BY <1>0, <1>1, <1>2, <1>3, <1>4

\* A work that is next is not behind the one that creates its interface.
LEMMA FoundWhenNext ==
  ASSUME TablesOK, NEW w, IsNext(w), Findable(w)
  PROVE  Resolves(w)
<1>1. Named(w.port, w.sub) # {} => IdOf(w.port, w.sub) # None
  BY IdOfName
<1> QED BY <1>1 DEF Findable, IsNext, Resolves, Destination

LEMMA FindStays ==
  ASSUME NEW v \in works, InterfacesDone(v), works' = works \ {v}, NEW w \in works', Findable(w),
         v.op = "DeleteInterface" /\ w.op \in {"ReassignIPAddress", "AssignIPAddress"} =>
             v.id \notin Named(w.port, w.sub)
  PROVE  Findable(w)'
<1> SUFFICES ASSUME w.op \in {"ReassignIPAddress", "AssignIPAddress"},
                    ~(w.op = "AssignIPAddress" /\ w.id # None)
             PROVE  \/ \E i \in InUse(ifs)' : ifs'[i].port = w.port /\ ifs'[i].sub = w.sub
                    \/ \E t \in works' : /\ t.op = "CreateInterface" /\ t.port = w.port /\ t.sub = w.sub
                                         /\ Sooner(t, w)'
  BY DEF Findable, Named
<1>1. CASE Named(w.port, w.sub) # {}
  <2>1. PICK i \in Named(w.port, w.sub) : TRUE
    BY <1>1
  <2>2. i \in InUse(ifs)' /\ ifs'[i].port = w.port /\ ifs'[i].sub = w.sub
    BY <2>1 DEF Named, InterfacesDone
  <2> QED BY <2>2
<1>2. ASSUME NEW t \in works, t.op = "CreateInterface", t.port = w.port, t.sub = w.sub, Sooner(t, w)
      PROVE  \/ \E i \in InUse(ifs)' : ifs'[i].port = w.port /\ ifs'[i].sub = w.sub
             \/ \E u \in works' : /\ u.op = "CreateInterface" /\ u.port = w.port /\ u.sub = w.sub
                                  /\ Sooner(u, w)'
  <2>1. CASE t = v
    BY <1>2, <2>1 DEF InterfacesDone
  <2>2. CASE t # v
    BY <1>2, <2>2 DEF Sooner
  <2> QED BY <2>1, <2>2
<1> QED BY <1>1, <1>2 DEF Findable

-----------------------------------------------------------------------------
\* migrate-interface, given again.

LEMMA SelfBegins ==
  ASSUME NetBoxOK, EndsDoNotClash, Migrating, script \in Seq(Command) \ {<< >>}, ~Fails,
         cmd.src = cmd.tgt,
         ifs' = ifs, ips' = ips, at' = at, cmd' = cmd, works' = ThePlan
  PROVE  SelfLeft'
<1>0. /\ TablesOK /\ NamesAreUnique /\ cmd.src \in Ports
      /\ ~MigrateFails(cmd.src, cmd.tgt) /\ works' = MigratePlan(cmd.src, cmd.tgt)
      /\ InUse(ips)' = InUse(ips) /\ \A port, n : Named(port, n)' = Named(port, n)
  BY CommandIs, SameReads DEF NetBoxOK, Fails, ThePlan, Zapping, Migrating, Cloning, Setting
<1>1. /\ TreeIsSound(cmd.tgt) /\ ByParent(cmd.tgt) = {}
      /\ \A i \in InUse(ifs) : ifs[i].port = cmd.tgt => ifs[i].sub = 0
  BY <1>0, SoundTree DEF MigrateFails, SubsOf
<1>2. ASSUME NEW w \in works'
      PROVE  \/ /\ w.op = "ModifyCable" /\ w.port = cmd.tgt /\ w.end = at[cmd.tgt] /\ at[cmd.tgt] # None
                /\ \A t \in Ports \cup OtherEnds : at[t] = w.end => t = cmd.tgt
             \/ /\ w.op = "ReassignIPAddress" /\ w.port = cmd.tgt /\ w.sub = 0
                /\ w.id \in InUse(ips) /\ ips[w.id].on \in Named(cmd.tgt, 0)
  <2>1. PICK i \in InUse(ifs) : ifs[i].port = cmd.src /\ MigrateWork(w, cmd.src, cmd.tgt, i)
    BY <1>0, <1>2, MigratePlanned
  <2>2. ifs[i].sub = 0 /\ i \in Named(cmd.tgt, 0)
    BY <1>1, <2>1 DEF Named
  <2>3. IdOf(cmd.tgt, 0) = i
    BY <1>0, <2>1, <2>2, IdOfInUse
  <2>4. CASE \E ip \in IpsOn(i) : w = ReassignIPAddress(<<2, ifs[i].sub, 2, ip>>, ip, cmd.tgt, ifs[i].sub)
    BY <2>2, <2>4 DEF ReassignIPAddress, IpsOn
  <2>5. CASE at[cmd.src] # None /\ w = ModifyCable(<<1>>, SourceEnd(cmd.src), cmd.tgt)
    <3>1. w.op = "ModifyCable" /\ w.port = cmd.tgt /\ w.end = at[cmd.tgt] /\ at[cmd.tgt] # None
      BY <1>0, <2>5, SourceEndIs DEF ModifyCable
    <3>2. at[cmd.src] \in CableEnds
      BY <1>0, <2>5 DEF TablesOK
    <3>3. at[cmd.src] = <<at[cmd.src][1], at[cmd.src][2]>> /\ at[cmd.src][2] \in {"a", "b"}
      BY <3>2 DEF CableEnds
    <3>4. ~Several(Plugged(at[cmd.src]))
      BY <1>0, <2>5, <3>3 DEF MigrateFails, CableForks
    <3>5. \A t \in Ports \cup OtherEnds : at[t] = at[cmd.src] => t = cmd.src
      BY <1>0, <3>4 DEF Several, Plugged
    <3> QED BY <3>1, <3>5
  <2> QED BY <2>1, <2>2, <2>3, <2>4, <2>5 DEF MigrateWork
<1> QED BY <1>0, <1>2 DEF SelfLeft

\* Everything is put where it was.
LEMMA SelfStays ==
  ASSUME NetBoxOK, SelfLeft, NEW w \in works, IsWork(w), DoWork(w)
  PROVE  netbox' = netbox /\ SelfLeft'
<1>0. /\ works' = works \ {w} /\ cmd' = cmd /\ Resolves(w) /\ Accepts(w) /\ Execute(w)
      /\ TablesOK /\ NamesAreUnique
  BY DEF DoWork, rest, cmd, NetBoxOK
<1>1. ASSUME w.op = "ModifyCable", w.port = cmd.tgt, w.end = at[cmd.tgt], at[cmd.tgt] # None,
             \A t \in Ports \cup OtherEnds : at[t] = w.end => t = cmd.tgt
      PROVE  ifs' = ifs /\ ips' = ips /\ at' = at
  <2>1. /\ at' = [t \in DOMAIN at |-> IF t = w.port THEN w.end
                                     ELSE IF at[t] = w.end THEN None ELSE at[t]]
        /\ ifs' = ifs /\ ips' = ips
    BY <1>0, <1>1 DEF Execute
  <2>2. at' = at
    BY <1>0, <1>1, <2>1 DEF TablesOK
  <2> QED BY <2>1, <2>2
<1>2. ASSUME w.op = "ReassignIPAddress", w.port = cmd.tgt, w.sub = 0,
             w.id \in InUse(ips), ips[w.id].on \in Named(cmd.tgt, 0)
      PROVE  ifs' = ifs /\ ips' = ips /\ at' = at
  <2>1. Destination(w) = IdOf(cmd.tgt, 0)
    BY <1>2 DEF Destination
  <2>2. IdOf(cmd.tgt, 0) = ips[w.id].on
    BY <1>0, <1>2, IdOfInUse DEF Named
  <2>3. ips' = [ips EXCEPT ![w.id].on = Destination(w)] /\ ifs' = ifs /\ at' = at
    BY <1>0, <1>2 DEF Execute
  <2>4. ips' = ips
    <3>1. w.id \in Ips /\ ips[w.id] \in Address
      BY <1>0, <1>2, AddressesInUse DEF TablesOK
    <3>2. [ips[w.id] EXCEPT !.on = ips[w.id].on] = ips[w.id]
      BY <3>1 DEF Address
    <3> QED BY <1>0, <2>1, <2>2, <2>3, <3>1, <3>2 DEF TablesOK
  <2> QED BY <2>3, <2>4
<1>3. ifs' = ifs /\ ips' = ips /\ at' = at
  BY <1>1, <1>2 DEF SelfLeft
<1>4. InUse(ips)' = InUse(ips) /\ \A port, n : Named(port, n)' = Named(port, n)
  BY <1>3, SameReads
<1>5. SelfLeft'
  BY <1>0, <1>3, <1>4 DEF SelfLeft
<1> QED BY <1>3, <1>5 DEF netbox

LEMMA NoCableBegins ==
  ASSUME NetBoxOK, Migrating, ~Fails, at[cmd.src] = None, works' = ThePlan
  PROVE  \A w \in works' : w.op # "ModifyCable"
<1>0. /\ TablesOK /\ NamesAreUnique
      /\ ~MigrateFails(cmd.src, cmd.tgt) /\ works' = MigratePlan(cmd.src, cmd.tgt)
  BY DEF NetBoxOK, Fails, ThePlan, Zapping, Migrating, Cloning, Setting
<1>1. \A w \in works' : \E i \in InUse(ifs) : MigrateWork(w, cmd.src, cmd.tgt, i)
  BY <1>0, MigratePlanned
<1> QED
  BY <1>1 DEF MigrateWork, ReassignIPAddress, ModifyInterface, CreateInterface, DeleteInterface

LEMMA SourceStays ==
  ASSUME NetBoxOK, Migrating, cmd.src # cmd.tgt, SourceInv, MigrateLeft,
         NEW w \in works, IsWork(w), DoWork(w)
  PROVE  SourceInv'
<1>0. /\ script' = script /\ was' = was /\ cmd' = cmd /\ Resolves(w) /\ Accepts(w) /\ Execute(w)
      /\ WasOn(cmd.src)' = WasOn(cmd.src)
  BY SameWas DEF DoWork, rest, cmd
<1>1. InterfacesDone(w)
  BY <1>0, WorkDoes
<1>2. /\ w.op = "CreateInterface" => w.port = cmd.tgt
      /\ w.op = "ModifyInterface" => w.id \in Named(cmd.tgt, 0)
  BY DEF MigrateLeft
<1>3. ASSUME NEW i \in InUse(ifs)', ifs'[i].port = cmd.src
      PROVE  i \in WasOn(cmd.src) /\ ifs'[i] = was.ifs[i]
  <2>1. i \in InUse(ifs) /\ ifs[i].port = cmd.src
    BY <1>1, <1>2, <1>3 DEF InterfacesDone
  <2>2. ifs'[i] = ifs[i]
    BY <1>1, <1>2, <1>3, <2>1 DEF InterfacesDone, Named
  <2> QED BY <2>1, <2>2 DEF SourceInv
<1> QED BY <1>0, <1>3 DEF SourceInv

LEMMA MigrateSettles ==
  ASSUME NetBoxOK, IsNetBox(was), Migrating, script \in Seq(Command) \ {<< >>},
         cmd.src # cmd.tgt, SourceInv, NoCableInv, MigrateLeft, CableInv, pc = "done", works = {}
  PROVE  MigrateSettled
<1>0. /\ TablesOK /\ was.at \in [Ports \cup OtherEnds -> CableEnds \cup {None}]
      /\ cmd.src \in Ports
  BY CommandIs DEF NetBoxOK, IsNetBox
<1>1. at[cmd.src] = None
  <2>1. CASE was.at[cmd.src] = None
    BY <2>1 DEF NoCableInv
  <2>2. CASE was.at[cmd.src] # None
    <3>1. at = CableMoved
      BY <2>2 DEF CableInv, CableLeft
    <3> QED BY <1>0, <3>1 DEF CableMoved
  <2> QED BY <2>1, <2>2
<1>2. ASSUME NEW i \in InUse(ifs), ifs[i].port = cmd.src
      PROVE  /\ ifs[i].sub = 0 /\ IpsOn(i) = {}
             /\ \E j \in Named(cmd.tgt, 0) : Values(j) = Values(i)
  <2>1. i \in WasOn(cmd.src) /\ ifs[i] = was.ifs[i]
    BY <1>2 DEF SourceInv
  <2>2. ifs[i].sub = 0 /\ IpsOn(i) = {}
    BY <1>2 DEF MigrateLeft
  <2>3. \E j \in Named(cmd.tgt, was.ifs[i].sub) : Values(j) = WasValues(i)
    BY <2>1 DEF MigrateLeft
  <2> QED BY <2>1, <2>2, <2>3 DEF Values, WasValues
<1> QED BY <1>1, <1>2 DEF MigrateSettled

LEMMA MigrateHasSettled ==
  ASSUME NetBoxOK, ~MigrateFails(cmd.src, cmd.tgt), MigrateSettled
  PROVE  MigratePlan(cmd.src, cmd.tgt) = {}
<1>0. TablesOK /\ NamesAreUnique
  BY DEF NetBoxOK
<1>1. ASSUME NEW w \in MigratePlan(cmd.src, cmd.tgt) PROVE FALSE
  <2>1. PICK i \in InUse(ifs) : ifs[i].port = cmd.src /\ MigrateWork(w, cmd.src, cmd.tgt, i)
    BY <1>0, <1>1, MigratePlanned
  <2>2. PICK j \in Named(cmd.tgt, 0) : Values(j) = Values(i)
    BY <2>1 DEF MigrateSettled
  <2>3. IdOf(cmd.tgt, 0) = j
    BY <1>0, <2>2, IdOfInUse DEF Named
  <2> QED BY <2>1, <2>2, <2>3 DEF MigrateSettled, MigrateWork
<1> QED BY <1>1

-----------------------------------------------------------------------------
\* clone-interface, given again.

LEMMA AnycastDone ==
  ASSUME NetBoxOK, NEW w, IsWork(w), Resolves(w), Accepts(w), Execute(w)
  PROVE  /\ \A ip \in InUse(ips) : ip \in InUse(ips)' =>
                \/ ips'[ip].anycast = ips[ip].anycast
                \/ w.op = "ModifyIPAddress" /\ w.id = ip /\ ips'[ip].anycast
         /\ \A ip \in InUse(ips)' : ip \notin InUse(ips) => ips'[ip].anycast
         /\ \A ip, other \in InUse(ips)' :
                ip \notin InUse(ips) /\ other \notin InUse(ips) => ip = other
<1>0. TablesOK /\ InUse(ips) \subseteq Ips
  BY AddressesInUse DEF NetBoxOK, TablesOK
<1> DEFINE Kept == /\ InUse(ips)' \subseteq InUse(ips)
                   /\ \A ip \in InUse(ips)' : ips'[ip].anycast = ips[ip].anycast
<1>1. ASSUME ips' = ips PROVE Kept
  BY <1>1 DEF InUse, Exists
<1>2. CASE CableMoves(w) \/ (\E i \in Ids : Creates(w, i)) \/ Modifies(w)
  BY <1>1, <1>2 DEF CableMoves, Creates, Modifies
<1>3. ASSUME Deletes(w) PROVE Kept
  BY <1>0, <1>3, AfterDeletes
<1>4. ASSUME DeletesIp(w) PROVE Kept
  BY <1>0, <1>4, AfterDeletesIp
<1>5. ASSUME Reassigns(w) PROVE Kept
  BY <1>0, <1>5, AfterReassigns
<1>6. CASE MakesAnycast(w)
  <2>1. /\ InUse(ips)' = InUse(ips)
        /\ \A ip \in InUse(ips) : ip # w.id => ips'[ip] = ips[ip]
        /\ ips'[w.id].anycast
    BY <1>0, <1>6, AfterMakesAnycast
  <2> QED BY <1>6, <2>1 DEF MakesAnycast
<1>7. ASSUME NEW new \in Ips, Assigns(w, new)
      PROVE  /\ InUse(ips)' = InUse(ips) \cup {new}
             /\ \A other \in InUse(ips) : ips'[other] = ips[other]
             /\ ips'[new].anycast
  <2>1. /\ InUse(ips)' = InUse(ips) \cup {new}
        /\ \A other \in InUse(ips) : ips'[other] = ips[other]
        /\ ips'[new] = [addr |-> w.addr, on |-> Destination(w), anycast |-> TRUE, vrf |-> w.vrf]
    BY <1>0, <1>7, AfterAssigns
  <2> QED BY <2>1
<1>8. CASE \E new \in Ips : Assigns(w, new)
  BY <1>7, <1>8
<1> QED BY <1>0, <1>2, <1>3, <1>4, <1>5, <1>6, <1>8, WorkDone

\* What plan() has accepted.
LEMMA CloneFitBegins ==
  ASSUME NetBoxOK, ~CloneFails(cmd.src, cmd.tgt)
  PROVE  CloneFit
<1>0. /\ TablesOK /\ NamesAreUnique /\ TreeIsSound(cmd.src) /\ TreeIsSound(cmd.tgt)
      /\ SubsOf(cmd.tgt) \subseteq SubsOf(cmd.src)
  BY DEF NetBoxOK, CloneFails
<1>1. Named(cmd.src, 0) # {} /\ Named(cmd.tgt, 0) # {}
  BY <1>0, SoundTree DEF Named
<1>2. ASSUME NEW j \in InUse(ifs), ifs[j].port = cmd.tgt
      PROVE  Named(cmd.src, ifs[j].sub) # {}
  <2>1. CASE ifs[j].sub = 0
    BY <1>1, <2>1
  <2>2. CASE ifs[j].sub # 0
    <3>1. j \in ByParent(cmd.tgt)
      BY <1>0, <1>2, <2>2, SoundTree
    <3>2. PICK i \in ByParent(cmd.src) : ifs[i].sub = ifs[j].sub
      BY <1>0, <3>1 DEF SubsOf
    <3> QED BY <1>0, <3>2, SoundTree DEF Named
  <2> QED BY <2>1, <2>2
<1>3. ASSUME NEW i \in InUse(ifs), Taken(i), Named(cmd.tgt, ifs[i].sub) = {}
      PROVE  ifs[i].vrf # None
  <2>1. ifs[i].sub # 0 /\ IdOf(cmd.tgt, ifs[i].sub) = None
    BY <1>0, <1>1, <1>3, IdOfName
  <2>2. i \in Cloned(cmd.src)
    BY <1>0, <1>3, <2>1, SoundTree DEF Cloned, Taken
  <2> QED BY <2>1, <2>2 DEF CloneFails, CloneAfreshFails
<1>4. ASSUME NEW i \in InUse(ifs), Taken(i), NEW j \in Named(cmd.tgt, ifs[i].sub)
      PROVE  CloneFits(i, j)
  <2>1. IdOf(cmd.tgt, ifs[i].sub) = j
    BY <1>0, IdOfInUse DEF Named
  <2>2. j # None
    BY <1>0, InterfacesInUse, NoneAssumption DEF TablesOK, Named
  <2>3. ~CloneOntoFails(i, j)
    BY <1>0, <1>4, <2>1, <2>2, CloneOntoAccepted DEF Taken
  <2> QED BY <2>3 DEF CloneOntoFails, CloneFits, SameAddr, Twins
<1> QED BY <1>0, <1>2, <1>3, <1>4 DEF CloneFit

\* What plan() accepts.
LEMMA CloneFitAccepted ==
  ASSUME NetBoxOK, CloneFit, NoIPv6, OnceOnEach
  PROVE  ~CloneFails(cmd.src, cmd.tgt)
<1>0. /\ TablesOK /\ NamesAreUnique /\ TreeIsSound(cmd.src) /\ TreeIsSound(cmd.tgt)
      /\ None \notin InUse(ifs)
  BY InterfacesInUse, NoneAssumption DEF NetBoxOK, CloneFit, TablesOK
<1>1. ASSUME NEW i \in InUse(ifs), Taken(i), IdOf(cmd.tgt, ifs[i].sub) # None
      PROVE  ~CloneOntoFails(i, IdOf(cmd.tgt, ifs[i].sub))
  <2> DEFINE j == IdOf(cmd.tgt, ifs[i].sub)
  <2>1. j \in Named(cmd.tgt, ifs[i].sub)
    BY <1>0, <1>1, IdOfName
  <2>2. CloneFits(i, j) /\ j \in InUse(ifs)
    BY <1>1, <2>1 DEF CloneFit, Named
  <2>3. AllIPv4(i) /\ AllIPv4(j)
    BY <1>0, <2>2 DEF AllIPv4, NoIPv6, IpsOn
  <2>4. \A ip \in IpsOn(i) : \A other, another \in Twins(ip, j) : other = another
    BY <1>0, <2>2 DEF OnceOnEach, Twins, IpsOn, SameAddr
  <2>5. \A ip \in IpsOn(i) : \A other \in Twins(ip, j) : ~Differ(ip, other)
    BY <2>2 DEF CloneFits, Twins, SameAddr
  <2>6. ~\E other \in IpsOn(j) : \A ip \in IpsOn(i) : ips[ip].addr # ips[other].addr
    BY <2>2 DEF CloneFits, SameAddr
  <2>7. ~(IpsOn(i) # {} /\ ifs[i].vrf = None)
    BY <2>2 DEF CloneFits
  <2> HIDE DEF j
  <2>8. ~CloneOntoFails(i, j)
    BY <2>3, <2>4, <2>5, <2>6, <2>7 DEF CloneOntoFails
  <2> QED BY <2>8 DEF j
<1>2. ~CloneOntoFails(IdOf(cmd.src, 0), IdOf(cmd.tgt, 0))
  <2>1. /\ IdOf(cmd.src, 0) \in InUse(ifs) /\ Taken(IdOf(cmd.src, 0)) /\ ifs[IdOf(cmd.src, 0)].sub = 0
    BY <1>0, SoundTree DEF Taken
  <2>2. IdOf(cmd.tgt, 0) # None
    BY <1>0 DEF TreeIsSound
  <2> QED BY <1>1, <2>1, <2>2
<1>3. ASSUME NEW i \in Cloned(cmd.src)
      PROVE  ~(IF IdOf(cmd.tgt, ifs[i].sub) = None THEN CloneAfreshFails(i)
               ELSE CloneOntoFails(i, IdOf(cmd.tgt, ifs[i].sub)))
  <2>1. i \in InUse(ifs) /\ Taken(i)
    BY <1>0, SoundTree DEF Cloned, Taken
  <2>2. IdOf(cmd.tgt, ifs[i].sub) = None => ifs[i].vrf # None
    BY <1>0, <2>1, IdOfName DEF CloneFit
  <2> QED BY <1>1, <2>1, <2>2 DEF CloneAfreshFails
<1>4. SubsOf(cmd.tgt) \subseteq SubsOf(cmd.src)
  <2>1. ASSUME NEW j \in ByParent(cmd.tgt) PROVE ifs[j].sub \in SubsOf(cmd.src)
    <3>1. j \in InUse(ifs) /\ ifs[j].port = cmd.tgt /\ ifs[j].sub # 0
      BY <1>0, <2>1, SoundTree
    <3>2. PICK i \in Named(cmd.src, ifs[j].sub) : TRUE
      BY <3>1 DEF CloneFit
    <3>3. i \in ByParent(cmd.src)
      BY <1>0, <3>1, SoundTree DEF Named
    <3> QED BY <3>2, <3>3 DEF SubsOf, Named
  <2> QED BY <2>1 DEF SubsOf
<1> QED BY <1>0, <1>2, <1>3, <1>4 DEF CloneFails

\* What a work of clone-interface does: the source and what is on it stay.
CloneDone(w) ==
    /\ cmd.src # cmd.tgt /\ cmd' = cmd /\ works' = works \ {w}
    /\ \A i \in InUse(ifs) :
           /\ i \in InUse(ifs)' /\ ifs'[i].port = ifs[i].port /\ ifs'[i].sub = ifs[i].sub
           /\ ifs[i].port = cmd.src => ifs'[i] = ifs[i]
    /\ \A i \in InUse(ifs)' : i \notin InUse(ifs) =>
           /\ w.op = "CreateInterface" /\ ifs'[i].port = cmd.tgt /\ ifs'[i].sub = w.sub
           /\ IpsOn(i)' = {}
    /\ \A ip \in InUse(ips) :
           /\ ip \in InUse(ips)' /\ ips'[ip].on = ips[ip].on
           /\ ips'[ip].addr = ips[ip].addr /\ ips'[ip].vrf = ips[ip].vrf
           /\ \/ ips'[ip].anycast = ips[ip].anycast
              \/ w.op = "ModifyIPAddress" /\ w.id = ip /\ ips'[ip].anycast
    /\ \A ip \in InUse(ips)' : ip \notin InUse(ips) =>
           /\ w.op = "AssignIPAddress" /\ ips'[ip].on \in Named(cmd.tgt, w.sub)
           /\ ips'[ip].addr = w.addr /\ ips'[ip].vrf = w.vrf /\ ips'[ip].anycast
           /\ \A other \in InUse(ips)' : other \notin InUse(ips) => other = ip
    /\ \A i \in InUse(ifs) : ifs[i].port = cmd.src =>
           IpsOn(i)' = IpsOn(i) /\ (Taken(i)' <=> Taken(i)) /\ Values(i)' = Values(i)
    /\ \A i \in InUse(ifs)' : ifs'[i].port = cmd.src => i \in InUse(ifs) /\ ifs[i].port = cmd.src

LEMMA CloneDoes ==
  ASSUME NetBoxOK, NetBoxOK', CloneLeft, NEW w \in works, IsWork(w), DoWork(w)
  PROVE  CloneDone(w)
<1>0. /\ works' = works \ {w} /\ cmd' = cmd /\ Resolves(w) /\ Accepts(w) /\ Execute(w)
      /\ TablesOK /\ NothingDangles /\ cmd.src # cmd.tgt
      /\ None \notin InUse(ifs) /\ None \notin InUse(ifs)'
  BY InterfacesInUse, NoneAssumption DEF DoWork, rest, cmd, NetBoxOK, CloneLeft, TablesOK
<1>1. InterfacesDone(w) /\ AddressesDone(w)
  BY <1>0, WorkDoes
<1>2. \/ w.op = "ModifyIPAddress"
      \/ w.op = "CreateInterface" /\ w.port = cmd.tgt
      \/ w.op = "ModifyInterface" /\ w.id \in InUse(ifs) /\ ifs[w.id].port = cmd.tgt
      \/ /\ w.op = "AssignIPAddress" /\ w.port = cmd.tgt
         /\ w.id # None => w.id \in Named(cmd.tgt, w.sub)
  BY DEF CloneLeft, Named
<1>3. ASSUME NEW i \in InUse(ifs)
      PROVE  /\ i \in InUse(ifs)' /\ ifs'[i].port = ifs[i].port /\ ifs'[i].sub = ifs[i].sub
             /\ ifs[i].port = cmd.src => ifs'[i] = ifs[i]
  BY <1>0, <1>1, <1>2 DEF InterfacesDone
<1>4. ASSUME NEW i \in InUse(ifs)', i \notin InUse(ifs)
      PROVE  w.op = "CreateInterface" /\ ifs'[i].port = cmd.tgt /\ ifs'[i].sub = w.sub
  BY <1>1, <1>2, <1>4 DEF InterfacesDone
<1>5. ASSUME NEW ip \in InUse(ips)
      PROVE  /\ ip \in InUse(ips)' /\ ips'[ip].on = ips[ip].on
             /\ ips'[ip].addr = ips[ip].addr /\ ips'[ip].vrf = ips[ip].vrf
             /\ \/ ips'[ip].anycast = ips[ip].anycast
                \/ w.op = "ModifyIPAddress" /\ w.id = ip /\ ips'[ip].anycast
  <2>1. /\ ip \in InUse(ips)' /\ ips'[ip].on = ips[ip].on
        /\ ips'[ip].addr = ips[ip].addr /\ ips'[ip].vrf = ips[ip].vrf
    BY <1>1, <1>2 DEF AddressesDone
  <2> QED BY <1>0, <2>1, AnycastDone
<1>6. w.op = "AssignIPAddress" => Destination(w) \in Named(cmd.tgt, w.sub)
  BY <1>0, <1>2, IdOfName DEF Destination, Resolves
<1>7. ASSUME NEW ip \in InUse(ips)', ip \notin InUse(ips)
      PROVE  /\ w.op = "AssignIPAddress" /\ ips'[ip].on \in Named(cmd.tgt, w.sub)
             /\ ips'[ip].addr = w.addr /\ ips'[ip].vrf = w.vrf /\ ips'[ip].anycast
             /\ \A other \in InUse(ips)' : other \notin InUse(ips) => other = ip
  <2>1. /\ w.op = "AssignIPAddress" /\ ips'[ip].on \in Named(cmd.tgt, w.sub)
        /\ ips'[ip].addr = w.addr /\ ips'[ip].vrf = w.vrf
    BY <1>1, <1>6, <1>7 DEF AddressesDone
  <2>2. ips'[ip].anycast /\ \A other \in InUse(ips)' : other \notin InUse(ips) => other = ip
    BY <1>0, <1>7, AnycastDone
  <2> QED BY <2>1, <2>2
<1>8. ASSUME NEW i \in InUse(ifs)', i \notin InUse(ifs), NEW ip \in IpsOn(i)' PROVE FALSE
  <2>1. ip \in InUse(ips)' /\ ips'[ip].on = i /\ i # None
    BY <1>0, <1>8 DEF IpsOn
  <2>2. ip \notin InUse(ips)
    BY <1>0, <1>5, <1>8, <2>1 DEF NothingDangles
  <2> QED BY <1>7, <1>8, <2>1, <2>2 DEF Named
<1>9. ASSUME NEW i \in InUse(ifs), ifs[i].port = cmd.src
      PROVE  IpsOn(i)' = IpsOn(i) /\ (Taken(i)' <=> Taken(i)) /\ Values(i)' = Values(i)
  <2>1. ifs'[i] = ifs[i]
    BY <1>3, <1>9
  <2>2. IpsOn(i)' = IpsOn(i)
    <3>1. \A ip \in InUse(ips)' : ips'[ip].on = i => ip \in InUse(ips) /\ ips[ip].on = i
      BY <1>0, <1>5, <1>7, <1>9 DEF Named
    <3> QED BY <1>5, <3>1 DEF IpsOn
  <2> QED BY <1>0, <2>1, <2>2 DEF Taken, Values
<1>10. ASSUME NEW i \in InUse(ifs)', ifs'[i].port = cmd.src
       PROVE  i \in InUse(ifs) /\ ifs[i].port = cmd.src
  BY <1>0, <1>3, <1>4, <1>10
<1>11. \A i \in InUse(ifs)' : i \notin InUse(ifs) => IpsOn(i)' = {}
  BY <1>8
<1> QED
  BY <1>0, <1>3, <1>4, <1>5, <1>7, <1>9, <1>10, <1>11 DEF CloneDone

\* The addresses stay plain.
LEMMA PlainStays ==
  ASSUME NetBoxOK, NetBoxOK', CloneKept, CloneLeft, NEW w \in works, IsWork(w), DoWork(w)
  PROVE  /\ OnceOnEach' => OnceOnEach
         /\ NoIPv6 => NoIPv6'
         /\ OnceOnEach /\ CloneTodo => OnceOnEach'
<1>0. /\ CloneDone(w) /\ None \notin InUse(ifs)
      /\ InUse(ifs) = {i \in Ids : ifs[i] \in Interface}
  BY CloneDoes, InterfacesInUse, NoneAssumption DEF NetBoxOK, TablesOK
<1>1. OnceOnEach' => OnceOnEach
  BY <1>0 DEF CloneDone, OnceOnEach, SameAddr
<1>2. ASSUME NoIPv6 PROVE NoIPv6'
  <2>1. ASSUME w.op = "AssignIPAddress" PROVE w.addr \notin V6
    <3>1. PICK i \in WasOn(cmd.src) : \E ip \in IpsOn(i) : w.addr = ips[ip].addr
      BY <2>1 DEF CloneLeft
    <3>2. PICK ip \in IpsOn(i) : w.addr = ips[ip].addr
      BY <3>1
    <3>3. i \in InUse(ifs)
      BY <3>1 DEF CloneKept
    <3> QED BY <1>0, <1>2, <3>2, <3>3 DEF NoIPv6, IpsOn
  <2> QED BY <1>0, <1>2, <2>1 DEF CloneDone, NoIPv6
<1>3. ASSUME OnceOnEach, CloneTodo PROVE OnceOnEach'
  <2>1. ASSUME NEW ip \in InUse(ips)', NEW other \in InUse(ips)', ips'[ip].on # None,
               ips'[ip].on = ips'[other].on, ips'[ip].addr = ips'[other].addr,
               ip \notin InUse(ips)
        PROVE  ip = other
    <3>1. /\ w.op = "AssignIPAddress" /\ ips'[ip].on \in Named(cmd.tgt, w.sub)
          /\ ips'[ip].addr = w.addr
      BY <1>0, <2>1 DEF CloneDone
    <3>2. \A j \in Named(cmd.tgt, w.sub) : \A old \in IpsOn(j) : ips[old].addr # w.addr
      BY <1>3, <3>1 DEF CloneTodo
    <3>3. ASSUME other \in InUse(ips) PROVE FALSE
      <4>1. ips[other].on = ips'[ip].on /\ ips[other].addr = w.addr
        BY <1>0, <2>1, <3>1, <3>3 DEF CloneDone
      <4>2. other \in IpsOn(ips'[ip].on)
        BY <3>3, <4>1 DEF IpsOn
      <4> QED BY <3>1, <3>2, <4>1, <4>2
    <3> QED BY <1>0, <2>1, <3>3 DEF CloneDone
  <2>2. ASSUME NEW ip \in InUse(ips), NEW other \in InUse(ips), ips'[ip].on # None,
               ips'[ip].on = ips'[other].on, ips'[ip].addr = ips'[other].addr
        PROVE  ip = other
    BY <1>0, <1>3, <2>2 DEF CloneDone, OnceOnEach, SameAddr
  <2> QED BY <2>1, <2>2 DEF OnceOnEach, SameAddr
<1> QED BY <1>1, <1>2, <1>3

LEMMA CloneTodoBegins ==
  ASSUME NetBoxOK, Cloning, ~Fails, OnceOnEach,
         ifs' = ifs, ips' = ips, cmd' = cmd, works' = ThePlan
  PROVE  CloneTodo'
<1>0. /\ TablesOK /\ NamesAreUnique /\ ~CloneFails(cmd.src, cmd.tgt)
      /\ works' = ClonePlan(cmd.src, cmd.tgt) /\ CloneFit /\ None \notin InUse(ifs)
  BY CloneFitBegins, InterfacesInUse, NoneAssumption
  DEF NetBoxOK, TablesOK, Fails, ThePlan, Zapping, Migrating, Cloning, Setting
<1>1. /\ IdOf(cmd.tgt, 0) # None /\ Named(cmd.tgt, 0) # {}
      /\ \A n : \A k \in Named(cmd.tgt, n) : k = IdOf(cmd.tgt, n) /\ k # None
  BY <1>0, IdOfName, IdOfInUse DEF CloneFit, TreeIsSound, Named
<1>2. ASSUME NEW w \in works'
      PROVE  \E i \in InUse(ifs) : Taken(i) /\ CloneWork(w, cmd.tgt, i)
  BY <1>0, <1>2, ClonePlanned DEF Taken
<1>3. ASSUME NEW w \in works', w.op = "CreateInterface"
      PROVE  /\ w.parent = IdOf(cmd.tgt, 0) /\ w.parent # None /\ w.sub # 0
             /\ \E i \in InUse(ifs) : Taken(i) /\ ifs[i].sub = w.sub /\ ifs[i].vrf # None
                               /\ w.values = Values(i)
  <2>1. PICK i \in InUse(ifs) : Taken(i) /\ CloneWork(w, cmd.tgt, i)
    BY <1>2, <1>3
  <2>2. /\ IdOf(cmd.tgt, ifs[i].sub) = None
        /\ w = CreateInterface(<<ifs[i].sub, 1>>, cmd.tgt, ifs[i].sub, IdOf(cmd.tgt, 0), Values(i))
    BY <1>3, <2>1 DEF CloneWork, MakeAnycast, ModifyInterface, AssignIPAddress
  <2>3. w.parent = IdOf(cmd.tgt, 0) /\ w.sub = ifs[i].sub /\ w.values = Values(i)
    BY <2>2 DEF CreateInterface
  <2>4. ifs[i].sub # 0 /\ ifs[i].vrf # None
    BY <1>0, <1>1, <2>1, <2>2 DEF CloneFit
  <2> QED BY <1>1, <2>1, <2>3, <2>4
<1>4. ASSUME NEW w \in works', w.op = "AssignIPAddress"
      PROVE  \E i \in InUse(ifs) : \E ip \in Missing(i, IdOf(cmd.tgt, ifs[i].sub)) :
                 /\ Taken(i) /\ ifs[i].sub = w.sub /\ ips[ip].addr = w.addr /\ ips[ip].vrf = w.vrf
                 /\ w = AssignIPAddress(<<ifs[i].sub, 2, ip, 2>>, ip, IdOf(cmd.tgt, ifs[i].sub),
                                        cmd.tgt, ifs[i].sub)
  <2>1. PICK i \in InUse(ifs) : Taken(i) /\ CloneWork(w, cmd.tgt, i)
    BY <1>2, <1>4
  <2>2. PICK ip \in Missing(i, IdOf(cmd.tgt, ifs[i].sub)) :
           w = AssignIPAddress(<<ifs[i].sub, 2, ip, 2>>, ip, IdOf(cmd.tgt, ifs[i].sub),
                               cmd.tgt, ifs[i].sub)
    BY <1>4, <2>1 DEF CloneWork, MakeAnycast, ModifyInterface, CreateInterface
  <2>3. w.sub = ifs[i].sub /\ w.addr = ips[ip].addr /\ w.vrf = ips[ip].vrf
    BY <2>2 DEF AssignIPAddress
  <2> QED BY <2>1, <2>2, <2>3
<1>5. ASSUME NEW w \in works', w.op = "AssignIPAddress"
      PROVE  /\ \A j \in Named(cmd.tgt, w.sub) : \A other \in IpsOn(j) : ips[other].addr # w.addr
             /\ \A v \in works' : v.op = "AssignIPAddress" /\ v.sub = w.sub /\ v.addr = w.addr => v = w
             /\ \E i \in InUse(ifs) : Taken(i) /\ ifs[i].sub = w.sub
                    /\ \E ip \in IpsOn(i) : ips[ip].addr = w.addr /\ ips[ip].vrf = w.vrf
  <2>0. PICK i \in InUse(ifs) : \E ip \in Missing(i, IdOf(cmd.tgt, ifs[i].sub)) :
           /\ Taken(i) /\ ifs[i].sub = w.sub /\ ips[ip].addr = w.addr /\ ips[ip].vrf = w.vrf
           /\ w = AssignIPAddress(<<ifs[i].sub, 2, ip, 2>>, ip, IdOf(cmd.tgt, ifs[i].sub),
                                  cmd.tgt, ifs[i].sub)
    BY <1>4, <1>5
  <2>1. PICK ip \in Missing(i, IdOf(cmd.tgt, ifs[i].sub)) :
           /\ Taken(i) /\ ifs[i].sub = w.sub /\ ips[ip].addr = w.addr /\ ips[ip].vrf = w.vrf
           /\ w = AssignIPAddress(<<ifs[i].sub, 2, ip, 2>>, ip, IdOf(cmd.tgt, ifs[i].sub),
                                  cmd.tgt, ifs[i].sub)
    BY <2>0
  <2>2. \A j \in Named(cmd.tgt, w.sub) : \A other \in IpsOn(j) : ips[other].addr # w.addr
    BY <1>1, <2>1 DEF Missing, Twins
  <2>3. ASSUME NEW v \in works', v.op = "AssignIPAddress", v.sub = w.sub, v.addr = w.addr
        PROVE  v = w
    <3>0. PICK k \in InUse(ifs) : \E other \in Missing(k, IdOf(cmd.tgt, ifs[k].sub)) :
             /\ Taken(k) /\ ifs[k].sub = v.sub /\ ips[other].addr = v.addr
             /\ v = AssignIPAddress(<<ifs[k].sub, 2, other, 2>>, other, IdOf(cmd.tgt, ifs[k].sub),
                                    cmd.tgt, ifs[k].sub)
      BY <1>4, <2>3
    <3>1. PICK other \in Missing(k, IdOf(cmd.tgt, ifs[k].sub)) :
             /\ Taken(k) /\ ifs[k].sub = v.sub /\ ips[other].addr = v.addr
             /\ v = AssignIPAddress(<<ifs[k].sub, 2, other, 2>>, other, IdOf(cmd.tgt, ifs[k].sub),
                                    cmd.tgt, ifs[k].sub)
      BY <3>0
    <3>2. k = i
      BY <1>0, <2>1, <2>3, <3>1 DEF NamesAreUnique, Taken
    <3>3. ip \in IpsOn(i) /\ other \in IpsOn(i) /\ SameAddr(ip, other)
      BY <2>1, <2>3, <3>1, <3>2 DEF Missing, SameAddr
    <3>4. ip = other
      BY <1>0, <3>3 DEF OnceOnEach, IpsOn
    <3> QED BY <2>1, <3>1, <3>2, <3>4
  <2> QED BY <2>1, <2>2, <2>3 DEF Missing
<1>6. ASSUME NEW w \in works', w.op = "ModifyIPAddress"
      PROVE  \E i \in InUse(ifs) : Taken(i) /\ w.id \in IpsOn(i)
                 /\ \A j \in Named(cmd.tgt, ifs[i].sub) : \A other \in IpsOn(j) :
                        SameAddr(w.id, other) => ips[other].anycast
  <2>1. PICK i \in InUse(ifs) : Taken(i) /\ CloneWork(w, cmd.tgt, i)
    BY <1>2, <1>6
  <2>2. PICK ip \in Missing(i, IdOf(cmd.tgt, ifs[i].sub)) : w = MakeAnycast(<<ifs[i].sub, 2, ip, 1>>, ip)
    BY <1>6, <2>1 DEF CloneWork, AssignIPAddress, ModifyInterface, CreateInterface
  <2>3. w.id = ip /\ ip \in IpsOn(i)
    BY <2>2 DEF MakeAnycast, Missing
  <2>4. \A j \in Named(cmd.tgt, ifs[i].sub) : \A other \in IpsOn(j) : ~SameAddr(ip, other)
    BY <1>1, <2>2 DEF Missing, Twins, SameAddr
  <2> QED BY <2>1, <2>3, <2>4
<1>7. /\ InUse(ifs)' = InUse(ifs) /\ \A port, n : Named(port, n)' = Named(port, n)
      /\ \A i : IpsOn(i)' = IpsOn(i) /\ Values(i)' = Values(i) /\ (Taken(i)' <=> Taken(i))
      /\ \A ip, other : SameAddr(ip, other)' <=> SameAddr(ip, other)
  BY SameReads, SameAddresses DEF Taken
<1>8. ASSUME NEW port, NEW n PROVE IdOf(port, n)' = IdOf(port, n)
  <2>1. Named(port, n)' = Named(port, n)
    BY <1>7
  <2> QED BY <2>1 DEF IdOf
<1> QED BY <1>3, <1>5, <1>6, <1>7, <1>8 DEF CloneTodo

LEMMA CloneTreesStay ==
  ASSUME NetBoxOK, NetBoxOK', CloneLeft, CloneTodo, TreeIsSound(cmd.src), TreeIsSound(cmd.tgt),
         NEW w \in works, IsWork(w), DoWork(w)
  PROVE  /\ TreeIsSound(cmd.src)' /\ TreeIsSound(cmd.tgt)'
         /\ IdOf(cmd.tgt, 0)' = IdOf(cmd.tgt, 0)
<1>0. /\ TablesOK /\ NamesAreUnique /\ TablesOK'
      /\ Resolves(w) /\ Accepts(w) /\ Execute(w) /\ cmd' = cmd
  BY DEF NetBoxOK, DoWork, rest, cmd
<1>1. InterfacesAfter(w) /\ InterfacesDone(w)
  BY <1>0, WorkAfter, WorkDoes
<1>2. w.op = "CreateInterface" => w.parent = IdOf(w.port, 0) /\ w.parent # None /\ w.sub # 0
  BY DEF CloneTodo, CloneLeft
<1>3. w.op # "DeleteInterface"
  BY DEF CloneLeft
<1>4. \A port : TreeIsSound(port) => TreeIsSound(port)' /\ IdOf(port, 0)' = IdOf(port, 0)
  BY <1>0, <1>1, <1>2, <1>3, TreesStay
<1> QED BY <1>0, <1>4

LEMMA CloneStaysFit ==
  ASSUME NetBoxOK, NetBoxOK', CloneLeft, CloneFit, CloneTodo, OnceOnEach,
         NEW w \in works, IsWork(w), DoWork(w)
  PROVE  CloneFit'
<1>0. /\ CloneDone(w) /\ Accepts(w) /\ None \notin InUse(ifs) /\ NamesAreUnique
  BY CloneDoes, InterfacesInUse, NoneAssumption DEF NetBoxOK, TablesOK, DoWork
<1>1. TreeIsSound(cmd.src)' /\ TreeIsSound(cmd.tgt)'
  BY CloneTreesStay DEF CloneFit
<1>2. ASSUME NEW j \in InUse(ifs)', ifs'[j].port = cmd.tgt
      PROVE  \E i \in InUse(ifs)' : ifs'[i].port = cmd.src /\ ifs'[i].sub = ifs'[j].sub
  <2>1. Named(cmd.src, ifs'[j].sub) # {}
    <3>1. CASE j \in InUse(ifs)
      BY <1>0, <1>2, <3>1 DEF CloneDone, CloneFit
    <3>2. CASE j \notin InUse(ifs)
      <4>1. w.op = "CreateInterface" /\ ifs'[j].sub = w.sub
        BY <1>0, <1>2, <3>2 DEF CloneDone
      <4> QED BY <4>1 DEF CloneTodo, Taken, Named
    <3> QED BY <3>1, <3>2
  <2> QED BY <1>0, <2>1 DEF CloneDone, Named
<1>3. ASSUME NEW i \in InUse(ifs)', Taken(i)'
      PROVE  /\ i \in InUse(ifs) /\ Taken(i) /\ ifs'[i] = ifs[i] /\ IpsOn(i)' = IpsOn(i)
             /\ \A k \in InUse(ifs) : Taken(k) /\ ifs[k].sub = ifs[i].sub => k = i
  <2>1. i \in InUse(ifs) /\ ifs[i].port = cmd.src
    BY <1>0, <1>3 DEF CloneDone, Taken
  <2>2. Taken(i) /\ ifs'[i] = ifs[i] /\ IpsOn(i)' = IpsOn(i)
    BY <1>0, <1>3, <2>1 DEF CloneDone
  <2> QED BY <1>0, <2>1, <2>2 DEF NamesAreUnique, Taken
<1>4. ASSUME NEW i \in InUse(ifs)', Taken(i)',
             ~\E j \in InUse(ifs)' : ifs'[j].port = cmd.tgt /\ ifs'[j].sub = ifs'[i].sub
      PROVE  ifs'[i].vrf # None
  <2>1. i \in InUse(ifs) /\ Taken(i) /\ ifs'[i] = ifs[i]
    BY <1>3, <1>4
  <2>2. Named(cmd.tgt, ifs[i].sub) = {}
    BY <1>0, <1>4, <2>1 DEF CloneDone, Named
  <2> QED BY <2>1, <2>2 DEF CloneFit
<1>5. ASSUME NEW i \in InUse(ifs)', Taken(i)',
             NEW j \in InUse(ifs)', ifs'[j].port = cmd.tgt, ifs'[j].sub = ifs'[i].sub
      PROVE  /\ IpsOn(i)' # {} => ifs'[i].vrf # None
             /\ \A other \in IpsOn(j)' : \E ip \in IpsOn(i)' : ips'[ip].addr = ips'[other].addr
             /\ \A ip \in IpsOn(i)', other \in IpsOn(j)' : ips'[ip].addr = ips'[other].addr =>
                    ips'[ip].anycast = ips'[other].anycast /\ ips'[ip].vrf = ips'[other].vrf
  <2>1. /\ i \in InUse(ifs) /\ Taken(i) /\ ifs'[i] = ifs[i] /\ IpsOn(i)' = IpsOn(i)
        /\ \A k \in InUse(ifs) : Taken(k) /\ ifs[k].sub = ifs[i].sub => k = i
    BY <1>3, <1>5
  <2>2. \A ip \in IpsOn(i) : ip \in InUse(ips) /\ ips[ip].on = i
    BY DEF IpsOn
  <2>3. CASE j \notin InUse(ifs)
    <3>1. w.op = "CreateInterface" /\ ifs'[j].sub = w.sub /\ IpsOn(j)' = {}
      BY <1>0, <1>5, <2>3 DEF CloneDone
    <3>2. \E k \in InUse(ifs) : Taken(k) /\ ifs[k].sub = w.sub /\ ifs[k].vrf # None
      BY <3>1 DEF CloneTodo
    <3> QED BY <1>5, <2>1, <3>1, <3>2
  <2>4. CASE j \in InUse(ifs)
    <3>1. j \in Named(cmd.tgt, ifs[i].sub) /\ ifs[j].port = cmd.tgt /\ ifs[j].sub = ifs[i].sub
      BY <1>0, <1>5, <2>1, <2>4 DEF CloneDone, Named
    <3>2. CloneFits(i, j)
      BY <2>1, <3>1 DEF CloneFit
    <3>3. IpsOn(i)' # {} => ifs'[i].vrf # None
      BY <2>1, <3>2 DEF CloneFits
    <3>4. \A ip \in IpsOn(i) : ip \in InUse(ips)' /\ ips'[ip].addr = ips[ip].addr /\ ips'[ip].vrf = ips[ip].vrf
      BY <1>0, <2>2 DEF CloneDone
    <3>5. ASSUME NEW other \in IpsOn(j)', other \in InUse(ips)
          PROVE  /\ other \in IpsOn(j) /\ ips[other].on = j
                 /\ ips'[other].addr = ips[other].addr /\ ips'[other].vrf = ips[other].vrf
      BY <1>0, <3>5 DEF CloneDone, IpsOn
    <3>6. ASSUME NEW other \in IpsOn(j)', other \notin InUse(ips)
          PROVE  /\ w.op = "AssignIPAddress" /\ ips'[other].addr = w.addr /\ ips'[other].vrf = w.vrf
                 /\ ips'[other].anycast
                 /\ \E ip \in IpsOn(i) : ips[ip].addr = w.addr /\ ips[ip].vrf = w.vrf
      <4>1. /\ w.op = "AssignIPAddress" /\ ips'[other].on = j /\ j \in Named(cmd.tgt, w.sub)
            /\ ips'[other].addr = w.addr /\ ips'[other].vrf = w.vrf /\ ips'[other].anycast
        BY <1>0, <3>6 DEF CloneDone, IpsOn
      <4>2. PICK k \in InUse(ifs) : /\ Taken(k) /\ ifs[k].sub = w.sub
                                    /\ \E ip \in IpsOn(k) : ips[ip].addr = w.addr /\ ips[ip].vrf = w.vrf
        BY <4>1 DEF CloneTodo
      <4>3. k = i
        BY <2>1, <3>1, <4>1, <4>2 DEF Named
      <4> QED BY <4>1, <4>2, <4>3
    <3>7. ASSUME NEW other \in IpsOn(j)'
          PROVE  \E ip \in IpsOn(i)' : ips'[ip].addr = ips'[other].addr
      <4>1. CASE other \in InUse(ips)
        <5>1. PICK ip \in IpsOn(i) : SameAddr(ip, other)
          BY <3>2, <3>5, <4>1 DEF CloneFits
        <5> QED BY <2>1, <3>4, <3>5, <4>1, <5>1 DEF SameAddr
      <4>2. CASE other \notin InUse(ips)
        BY <2>1, <3>4, <3>6, <4>2
      <4> QED BY <4>1, <4>2
    <3>8. ASSUME NEW ip \in IpsOn(i), NEW other \in IpsOn(j)', ips'[ip].addr = ips'[other].addr
          PROVE  ips'[ip].anycast = ips'[other].anycast /\ ips'[ip].vrf = ips'[other].vrf
      <4>1. CASE other \notin InUse(ips)
        <5>1. PICK old \in IpsOn(i) : ips[old].addr = w.addr /\ ips[old].vrf = w.vrf
          BY <3>6, <4>1
        <5>2. SameAddr(old, ip)
          BY <3>4, <3>6, <3>8, <4>1, <5>1 DEF SameAddr
        <5>3. old = ip
          BY <1>0, <2>1, <2>2, <5>2 DEF OnceOnEach
        <5>4. ips[ip].anycast
          BY <1>0, <2>2, <3>6, <4>1, <5>1, <5>3 DEF Accepts
        <5>5. ips'[ip].anycast = ips[ip].anycast
          BY <1>0, <2>2, <3>6, <4>1 DEF CloneDone
        <5>6. ips'[ip].anycast = TRUE
          <6>1. ips'[ip] \in Address
            BY <3>4, AddressesInUse DEF NetBoxOK, TablesOK
          <6> QED BY <5>4, <5>5, <6>1 DEF Address
        <5>7. ips'[other].anycast = TRUE
          <6>1. ips'[other] \in Address
            BY AddressesInUse DEF NetBoxOK, TablesOK, IpsOn
          <6> QED BY <3>6, <4>1, <6>1 DEF Address
        <5> QED BY <3>4, <3>6, <4>1, <5>1, <5>3, <5>6, <5>7
      <4>2. CASE other \in InUse(ips)
        <5>1. other \in IpsOn(j) /\ SameAddr(ip, other)
          BY <3>4, <3>5, <3>8, <4>2 DEF SameAddr
        <5>2. ips[ip].anycast = ips[other].anycast /\ ips[ip].vrf = ips[other].vrf
          BY <3>2, <5>1 DEF CloneFits, Differ
        <5>3. ips'[ip].vrf = ips'[other].vrf
          BY <3>4, <3>5, <4>2, <5>2
        <5>4. CASE w.op = "ModifyIPAddress" /\ w.id \in {ip, other}
          <6>1. PICK k \in InUse(ifs) : /\ Taken(k) /\ w.id \in IpsOn(k)
                                        /\ \A t \in Named(cmd.tgt, ifs[k].sub) : \A twin \in IpsOn(t) :
                                               SameAddr(w.id, twin) => ips[twin].anycast
            BY <5>4 DEF CloneTodo
          <6>2. w.id # other
            BY <1>0, <3>1, <3>5, <4>2, <6>1 DEF IpsOn, Taken, CloneDone
          <6>3. w.id = ip /\ k = i
            BY <2>2, <5>4, <6>1, <6>2 DEF IpsOn
          <6>4. ips[other].anycast
            BY <3>1, <5>1, <6>1, <6>3
          <6>5. /\ ips[ip] \in Address /\ ips[other] \in Address
                /\ ips'[ip] \in Address /\ ips'[other] \in Address
            BY <2>2, <3>4, <4>2, AddressesInUse DEF NetBoxOK, TablesOK, IpsOn
          <6>6. ips'[ip].anycast /\ ips'[other].anycast
            BY <1>0, <2>2, <4>2, <5>2, <6>2, <6>4 DEF CloneDone
          <6> QED BY <5>3, <6>5, <6>6 DEF Address
        <5>5. CASE ~(w.op = "ModifyIPAddress" /\ w.id \in {ip, other})
          BY <1>0, <2>2, <4>2, <5>2, <5>3, <5>5 DEF CloneDone
        <5> QED BY <5>4, <5>5
      <4> QED BY <4>1, <4>2
    <3> QED BY <2>1, <3>3, <3>7, <3>8
  <2> QED BY <2>3, <2>4
<1>6. cmd' = cmd
  BY <1>0 DEF CloneDone
<1> QED BY <1>1, <1>2, <1>4, <1>5, <1>6 DEF CloneFit, CloneFits, Named, SameAddr, Differ

LEMMA CloneTodoStays ==
  ASSUME NetBoxOK, NetBoxOK', CloneLeft, CloneFit, CloneTodo, NEW w \in works, IsWork(w), DoWork(w)
  PROVE  CloneTodo'
<1>0. /\ CloneDone(w) /\ None \notin InUse(ifs)
      /\ IdOf(cmd.tgt, 0)' = IdOf(cmd.tgt, 0)
  BY CloneDoes, CloneTreesStay, InterfacesInUse, NoneAssumption DEF NetBoxOK, TablesOK, CloneFit
<1>a. cmd' = cmd /\ works' = works \ {w}
  BY <1>0 DEF CloneDone
<1>1. ASSUME NEW i \in InUse(ifs), Taken(i)
      PROVE  /\ i \in InUse(ifs)' /\ Taken(i)' /\ ifs'[i] = ifs[i]
             /\ IpsOn(i)' = IpsOn(i) /\ Values(i)' = Values(i)
  BY <1>0, <1>1 DEF CloneDone, Taken
<1>2. ASSUME NEW j \in InUse(ifs)', ifs'[j].port = cmd.tgt, NEW other \in IpsOn(j)'
      PROVE  \/ /\ j \in Named(cmd.tgt, ifs'[j].sub) /\ other \in IpsOn(j)
                /\ ips'[other].addr = ips[other].addr
                /\ ips[other].anycast => ips'[other].anycast
             \/ /\ w.op = "AssignIPAddress" /\ ifs'[j].sub = w.sub
                /\ ips'[other].addr = w.addr /\ ips'[other].anycast
  <2>1. j \in InUse(ifs) /\ other \in InUse(ips)' /\ ips'[other].on = j
    BY <1>0, <1>2 DEF CloneDone, IpsOn
  <2>2. CASE other \in InUse(ips)
    BY <1>0, <1>2, <2>1, <2>2 DEF CloneDone, IpsOn, Named
  <2>3. CASE other \notin InUse(ips)
    BY <1>0, <1>2, <2>1, <2>3 DEF CloneDone, Named
  <2> QED BY <2>2, <2>3
<1>3. ASSUME NEW v \in works', v.op = "CreateInterface"
      PROVE  /\ v.parent = IdOf(cmd.tgt, 0) /\ v.parent # None /\ v.sub # 0
             /\ \E i \in InUse(ifs)' : Taken(i)' /\ ifs'[i].sub = v.sub /\ ifs'[i].vrf # None
                               /\ v.values = Values(i)'
  <2>1. /\ v.parent = IdOf(cmd.tgt, 0) /\ v.parent # None /\ v.sub # 0
        /\ \E i \in InUse(ifs) : Taken(i) /\ ifs[i].sub = v.sub /\ ifs[i].vrf # None /\ v.values = Values(i)
    BY <1>a, <1>3 DEF CloneTodo
  <2> QED BY <1>1, <2>1
<1>4. ASSUME NEW v \in works', v.op = "AssignIPAddress"
      PROVE  /\ \A j \in InUse(ifs)' : ifs'[j].port = cmd.tgt /\ ifs'[j].sub = v.sub =>
                    \A other \in IpsOn(j)' : ips'[other].addr # v.addr
             /\ \A u \in works' : u.op = "AssignIPAddress" /\ u.sub = v.sub /\ u.addr = v.addr => u = v
             /\ \E i \in InUse(ifs)' : Taken(i)' /\ ifs'[i].sub = v.sub
                    /\ \E ip \in IpsOn(i)' : ips'[ip].addr = v.addr /\ ips'[ip].vrf = v.vrf
  <2>0. v \in works /\ v # w
    BY <1>a, <1>4
  <2>1. /\ \A j \in Named(cmd.tgt, v.sub) : \A other \in IpsOn(j) : ips[other].addr # v.addr
        /\ \A u \in works : u.op = "AssignIPAddress" /\ u.sub = v.sub /\ u.addr = v.addr => u = v
        /\ \E i \in InUse(ifs) : Taken(i) /\ ifs[i].sub = v.sub
               /\ \E ip \in IpsOn(i) : ips[ip].addr = v.addr /\ ips[ip].vrf = v.vrf
    BY <1>4, <2>0 DEF CloneTodo
  <2>2. ASSUME NEW j \in InUse(ifs)', ifs'[j].port = cmd.tgt, ifs'[j].sub = v.sub,
               NEW other \in IpsOn(j)', ips'[other].addr = v.addr
        PROVE  FALSE
    BY <1>2, <2>0, <2>1, <2>2
  <2>3. PICK i \in InUse(ifs) : Taken(i) /\ ifs[i].sub = v.sub
               /\ \E ip \in IpsOn(i) : ips[ip].addr = v.addr /\ ips[ip].vrf = v.vrf
    BY <2>1
  <2>4. PICK ip \in IpsOn(i) : ips[ip].addr = v.addr /\ ips[ip].vrf = v.vrf
    BY <2>3
  <2>5. ips'[ip].addr = v.addr /\ ips'[ip].vrf = v.vrf
    BY <1>0, <2>4 DEF CloneDone, IpsOn
  <2> QED BY <1>1, <1>a, <2>1, <2>2, <2>3, <2>4, <2>5
<1>5. ASSUME NEW v \in works', v.op = "ModifyIPAddress"
      PROVE  \E i \in InUse(ifs)' : Taken(i)' /\ v.id \in IpsOn(i)'
                 /\ \A j \in InUse(ifs)' : ifs'[j].port = cmd.tgt /\ ifs'[j].sub = ifs'[i].sub =>
                        \A other \in IpsOn(j)' : ips'[v.id].addr = ips'[other].addr => ips'[other].anycast
  <2>1. PICK i \in InUse(ifs) : /\ Taken(i) /\ v.id \in IpsOn(i)
                                /\ \A j \in Named(cmd.tgt, ifs[i].sub) : \A other \in IpsOn(j) :
                                       SameAddr(v.id, other) => ips[other].anycast
    BY <1>a, <1>5 DEF CloneTodo
  <2>2. ips'[v.id].addr = ips[v.id].addr
    BY <1>0, <2>1 DEF CloneDone, IpsOn
  <2>3. ASSUME NEW j \in InUse(ifs)', ifs'[j].port = cmd.tgt, ifs'[j].sub = ifs[i].sub,
               NEW other \in IpsOn(j)', ips'[v.id].addr = ips'[other].addr
        PROVE  ips'[other].anycast
    BY <1>2, <2>1, <2>2, <2>3 DEF SameAddr
  <2> QED BY <1>1, <2>1, <2>3
<1> QED BY <1>0, <1>a, <1>3, <1>4, <1>5 DEF CloneTodo, Named, SameAddr

LEMMA CloneSettles ==
  ASSUME NetBoxOK, CloneKept, CloneLeft, works = {}
  PROVE  CloneSettled
<1> SUFFICES ASSUME NEW i \in InUse(ifs), Taken(i)
             PROVE  \E j \in Named(cmd.tgt, ifs[i].sub) :
                        /\ Values(j) = Values(i)
                        /\ \A ip \in IpsOn(i) : \E other \in IpsOn(j) : SameAddr(ip, other)
  BY DEF CloneSettled
<1>1. i \in WasOn(cmd.src) /\ ifs[i] = was.ifs[i] /\ i \in InUse(was.ifs)
  BY DEF CloneKept, Taken, WasOn
<1>2. WasCloned(i) /\ Values(i) = WasValues(i)
  BY <1>1 DEF Taken, WasCloned, Values, WasValues
<1>3. PICK j \in Named(cmd.tgt, ifs[i].sub) : Values(j) = Values(i)
  BY <1>1, <1>2 DEF CloneLeft
<1>4. \A k \in Named(cmd.tgt, ifs[i].sub) : k = j
  BY DEF NetBoxOK, NamesAreUnique, Named
<1>5. \A ip \in IpsOn(i) : \E other \in IpsOn(j) : SameAddress(ip, other)
  BY <1>1, <1>2, <1>4 DEF CloneLeft
<1> QED BY <1>3, <1>5 DEF SameAddress, SameAddr

LEMMA CloneHasSettled ==
  ASSUME NetBoxOK, ~CloneFails(cmd.src, cmd.tgt), CloneSettled
  PROVE  ClonePlan(cmd.src, cmd.tgt) = {}
<1>0. TablesOK /\ NamesAreUnique /\ None \notin InUse(ifs)
  BY InterfacesInUse, NoneAssumption DEF NetBoxOK, TablesOK
<1>1. ASSUME NEW w \in ClonePlan(cmd.src, cmd.tgt) PROVE FALSE
  <2>1. PICK i \in InUse(ifs) : Taken(i) /\ CloneWork(w, cmd.tgt, i)
    BY <1>0, <1>1, ClonePlanned DEF Taken
  <2>2. PICK j \in Named(cmd.tgt, ifs[i].sub) :
            /\ Values(j) = Values(i)
            /\ \A ip \in IpsOn(i) : \E other \in IpsOn(j) : SameAddr(ip, other)
    BY <2>1 DEF CloneSettled
  <2>3. IdOf(cmd.tgt, ifs[i].sub) = j /\ j # None
    BY <1>0, <2>2, IdOfInUse DEF Named
  <2>4. Missing(i, j) = {}
    BY <2>2, <2>3 DEF Missing, Twins, SameAddr
  <2> QED BY <2>1, <2>2, <2>3, <2>4 DEF CloneWork
<1> QED BY <1>1

-----------------------------------------------------------------------------
\* A run of a command that is given again.

LEMMA PlainBegins ==
  ASSUME NetBoxOK, was = netbox
  PROVE  PlainInv
<1>0. /\ TablesOK /\ NothingDangles /\ was.ips = ips /\ was.ifs = ifs
      /\ InUse(ips) = {ip \in Ips : ips[ip] \in Address}
      /\ InUse(ifs) = {i \in Ids : ifs[i] \in Interface}
  BY AddressesInUse, InterfacesInUse DEF NetBoxOK, TablesOK, netbox
<1>1. ASSUME NEW ip \in InUse(ips), ips[ip].on # None
      PROVE  ip \in Placed
  <2>1. Was(ip) = Place(ip)
    BY DEF Was, Place
  <2>2. Was(ip) = <<ifs[ips[ip].on].port, ifs[ips[ip].on].sub>>
    BY <1>1, <2>1, PlaceIs
  <2>3. ifs[ips[ip].on] \in Interface
    BY <1>0, <1>1 DEF NothingDangles
  <2>4. Was(ip) \in Ports \X (SubNumbers \cup {0})
    BY <2>2, <2>3 DEF Interface
  <2> QED BY <1>0, <2>4, PlacesAssumption DEF Placed, Somewhere
<1>2. SourceIsIPv4 => NoIPv6
  BY <1>0, <1>1 DEF SourceIsIPv4, NoIPv6
<1>3. AddressedOnce => OnceOnEach
  BY <1>0, <1>1 DEF AddressedOnce, OnceOnEach, SameAddr
<1> QED BY <1>2, <1>3 DEF PlainInv

LEMMA SameGiven ==
  ASSUME script' = script, was' = was
  PROVE  /\ cmd' = cmd
         /\ (Zapping' <=> Zapping) /\ (Setting' <=> Setting)
         /\ (Cloning' <=> Cloning) /\ (Migrating' <=> Migrating) /\ (Self' <=> Self)
         /\ (SourceIsIPv4' <=> SourceIsIPv4) /\ (AddressedOnce' <=> AddressedOnce)
         /\ (Resumable' <=> Resumable)
<1>1. /\ cmd' = cmd /\ Placed' = Placed
      /\ (Zapping' <=> Zapping) /\ (Cloning' <=> Cloning) /\ (Migrating' <=> Migrating)
  BY SameCommand
<1>2. Setting' <=> Setting
  BY <1>1 DEF Setting
<1>3. Self' <=> Self
  BY <1>1 DEF Self
<1>4. (SourceIsIPv4' <=> SourceIsIPv4) /\ (AddressedOnce' <=> AddressedOnce)
  BY <1>1 DEF SourceIsIPv4, AddressedOnce
<1> QED BY <1>1, <1>2, <1>3, <1>4 DEF Resumable

\* What plan() has accepted is fit, and what is fit it accepts.
LEMMA FitBegins ==
  ASSUME NetBoxOK, ~Fails
  PROVE  Fit
<1>1. Zapping => ZapFit
  BY DEF Fails, ZapFails, ZapFit, Range
<1>2. ASSUME Setting PROVE SetFit
  <2>1. \A k \in DOMAIN cmd.targets : IdOf(cmd.targets[k], 0) # None
    BY <1>2 DEF Fails, SetTypeFails
  <2>2. \A port : IdOf(port, 0) # None => Named(port, 0) # {}
    BY DEF IdOf
  <2> QED BY <2>1, <2>2 DEF SetFit, Range
<1>3. Cloning => CloneFit
  BY CloneFitBegins DEF Fails
<1> QED BY <1>1, <1>2, <1>3 DEF Fit

LEMMA FitAccepts ==
  ASSUME NetBoxOK, Fit, PlainInv, Resumable
  PROVE  ~Fails
<1>1. ASSUME Zapping PROVE ~ZapFails(cmd.targets)
  BY <1>1 DEF Fit, ZapFails, ZapFit, Range
<1>2. ASSUME Setting PROVE ~SetTypeFails(cmd.targets)
  <2>1. \A port \in Range(cmd.targets) : IdOf(port, 0) # None
    BY <1>2, IdOfName DEF Fit, SetFit, NetBoxOK
  <2> QED BY <2>1 DEF SetTypeFails, Range
<1>3. ASSUME Cloning PROVE ~CloneFails(cmd.src, cmd.tgt)
  <2>1. NoIPv6 /\ OnceOnEach
    BY <1>3, OneCommand DEF Resumable, PlainInv
  <2> QED BY <1>3, <2>1, CloneFitAccepted DEF Fit
<1> QED BY <1>1, <1>2, <1>3, OneCommand DEF Fails, Resumable

\* A command that is done has settled; there is nothing to do when it is given again.
LEMMA Settles ==
  ASSUME TypeInv, DoneInv, Alone, NoCableInv, SourceInv, pc = "done"
  PROVE  Settled
<1>0. /\ NetBoxOK /\ IsNetBox(was) /\ script \in Seq(Command) \ {<< >>} /\ works = {}
      /\ ZapInv /\ MigrateInv /\ CableInv /\ CloneInv /\ SetInv
  BY DEF TypeInv, ScalarsOK, DoneInv
<1>1. Zapping => ZapSettled
  BY <1>0, ZapSettles DEF ZapInv
<1>2. Setting => SetSettled
  BY <1>0, SetSettles DEF SetInv
<1>3. Cloning => CloneSettled
  BY <1>0, CloneSettles DEF CloneInv
<1>4. Migrating => Self \/ MigrateSettled
  BY <1>0, MigrateSettles DEF MigrateInv, Self
<1> QED BY <1>1, <1>2, <1>3, <1>4 DEF Settled

LEMMA HasSettled ==
  ASSUME NetBoxOK, script \in Seq(Command) \ {<< >>}, ~Fails, Settled
  PROVE  Self \/ ThePlan = {}
<1>0. /\ Zapping \/ Migrating \/ Cloning \/ Setting
      /\ Zapping => cmd.targets \in Seq(Ports)
  BY CommandIs
<1>1. CASE Zapping
  <2>1. ZapPlan(cmd.targets) = {}
    BY <1>0, <1>1, ZapHasSettled DEF Fails, Settled
  <2> QED BY <1>1, <2>1, OneCommand DEF ThePlan
<1>2. CASE Migrating /\ ~Self
  <2>1. MigratePlan(cmd.src, cmd.tgt) = {}
    BY <1>2, MigrateHasSettled DEF Fails, Settled
  <2> QED BY <1>2, <2>1, OneCommand DEF ThePlan
<1>3. CASE Cloning
  <2>1. ClonePlan(cmd.src, cmd.tgt) = {}
    BY <1>3, CloneHasSettled DEF Fails, Settled
  <2> QED BY <1>3, <2>1, OneCommand DEF ThePlan
<1>4. CASE Setting
  <2>1. SetTypePlan(cmd.targets, cmd.kind) = {}
    BY <1>4, SetHasSettled DEF Fails, Settled
  <2> QED BY <1>4, <2>1, OneCommand DEF ThePlan
<1> QED BY <1>0, <1>1, <1>2, <1>3, <1>4

\* A step of it that writes nothing.
LEMMA PlainSame ==
  ASSUME ifs' = ifs, ips' = ips, at' = at, script' = script, was' = was
  PROVE  /\ PlainInv => PlainInv'
         /\ SourceInv => SourceInv'
         /\ netbox' = netbox
<1>1. /\ cmd' = cmd /\ (Cloning' <=> Cloning) /\ (Migrating' <=> Migrating)
      /\ (SourceIsIPv4' <=> SourceIsIPv4) /\ (AddressedOnce' <=> AddressedOnce)
  BY SameGiven
<1>2. (OnceOnEach' <=> OnceOnEach) /\ (NoIPv6' <=> NoIPv6)
  BY SameAddresses
<1>3. InUse(ifs)' = InUse(ifs) /\ WasOn(cmd.src)' = WasOn(cmd.src)
  BY <1>1, SameReads, SameWas
<1> QED BY <1>1, <1>2, <1>3 DEF PlainInv, SourceInv, netbox

LEMMA PlanAgain ==
  ASSUME EndsDoNotClash, TypeInv, AgainInv, Alone, Plan
  PROVE  AgainInv'
<1>0. /\ NetBoxOK /\ IsNetBox(was) /\ script \in Seq(Command) \ {<< >>}
      /\ ifs' = ifs /\ ips' = ips /\ at' = at /\ script' = script /\ was' = was
      /\ run' = run /\ before' = before /\ pc = "plan"
      /\ \/ Fails /\ pc' = "failed" /\ works' = works
         \/ ~Fails /\ pc' = "do" /\ works' = ThePlan
  BY DEF TypeInv, ScalarsOK, Plan, rest
<1>1. /\ WaitsInv /\ PlainInv /\ TodoInv /\ FindInv /\ SelfInv /\ NoCableInv /\ SourceInv
      /\ cmd' = cmd
      /\ (Zapping' <=> Zapping) /\ (Setting' <=> Setting) /\ (Cloning' <=> Cloning)
      /\ (Migrating' <=> Migrating) /\ (Self' <=> Self) /\ (Resumable' <=> Resumable)
      /\ netbox' = netbox /\ PlainInv' /\ SourceInv'
  BY <1>0, SameGiven, PlainSame DEF AgainInv
<1>2. WaitsInv'
  <2>1. ASSUME Begun' PROVE Fit'
    <3>1. Fit
      BY <1>0, <1>1, <2>1, FitBegins DEF WaitsInv, Begun
    <3> QED BY <1>0, <1>1, <3>1, FitStays
  <2>2. ASSUME pc' = "failed"
        PROVE  /\ Resumable => netbox' = was' /\ before' # cmd'
               /\ AfterZap => ~TreeIsSound(cmd.src) \/ CableForks(cmd.src)
    <3>1. Fails
      BY <1>0, <2>2
    <3>2. Resumable => ~Begun
      BY <1>0, <1>1, <3>1, FitAccepts DEF WaitsInv
    <3>3. ASSUME AfterZap
          PROVE  ~TreeIsSound(cmd.src) \/ CableForks(cmd.src)
      <4>1. cmd.tgt \in Ports
        BY <1>0, <3>3, CommandIs DEF AfterZap
      <4>2. TreeIsSound(cmd.tgt) /\ SubsOf(cmd.tgt) = {}
        BY <1>0, <1>1, <3>3, <4>1 DEF WaitsInv, AfterZap
      <4>3. MigrateFails(cmd.src, cmd.tgt)
        BY <3>1, <3>3, OneCommand DEF Fails, AfterZap
      <4> QED BY <4>2, <4>3 DEF MigrateFails
    <3> QED BY <1>0, <1>1, <3>2, <3>3 DEF Begun
  <2>3. ASSUME before' = cmd'
        PROVE  netbox' = was' /\ Settled' /\ (pc' \in {"do", "done"} => Self' \/ works' = {})
    <3>1. netbox = was /\ Settled
      BY <1>0, <1>1, <2>3 DEF WaitsInv
    <3>2. Settled'
      BY <1>0, <1>1, <3>1, FitStays
    <3> QED BY <1>0, <1>1, <3>1, <3>2, HasSettled
  <2>4. AfterZap' <=> AfterZap
    BY <1>0, <1>1 DEF AfterZap, Zap
  <2>5. \A port : (TreeIsSound(port)' <=> TreeIsSound(port)) /\ (CableForks(port)' <=> CableForks(port))
    BY <1>0, SameTrees
  <2>6. pc' # "plan"
    BY <1>0
  <2> QED BY <1>1, <2>1, <2>2, <2>3, <2>4, <2>5, <2>6 DEF WaitsInv
<1>3. TodoInv'
  <2>1. OnceOnEach' <=> OnceOnEach
    BY <1>0, SameAddresses
  <2> QED BY <1>0, <1>1, <2>1, CloneTodoBegins DEF TodoInv
<1>4. FindInv'
  BY <1>0, FindBegins DEF FindInv
<1>5. SelfInv'
  <2>1. Self /\ ~Fails => SelfLeft'
    BY <1>0, <1>1, SelfBegins DEF Self
  <2> QED BY <1>0, <1>1, <2>1 DEF SelfInv
<1>6. NoCableInv'
  BY <1>0, <1>1, NoCableBegins DEF NoCableInv
<1> QED BY <1>1, <1>2, <1>3, <1>4, <1>5, <1>6 DEF AgainInv

LEMMA WorkAgain ==
  ASSUME TypeInv, TypeInv', DoneInv, AgainInv, Alone, NEW w \in works, DoWork(w)
  PROVE  AgainInv'
<1>0. /\ NetBoxOK /\ NetBoxOK' /\ IsNetBox(was) /\ script \in Seq(Command) \ {<< >>} /\ IsWork(w)
      /\ script' = script /\ was' = was /\ run' = run /\ before' = before /\ pc = "do" /\ pc' = "do"
      /\ works' = works \ {w} /\ Resolves(w) /\ Accepts(w) /\ Execute(w)
  BY DEF TypeInv, ScalarsOK, DoWork, rest
<1>1. /\ WaitsInv /\ PlainInv /\ TodoInv /\ FindInv /\ SelfInv /\ NoCableInv /\ SourceInv
      /\ cmd' = cmd
      /\ (Zapping' <=> Zapping) /\ (Setting' <=> Setting) /\ (Cloning' <=> Cloning)
      /\ (Migrating' <=> Migrating) /\ (Self' <=> Self) /\ (Resumable' <=> Resumable)
      /\ (SourceIsIPv4' <=> SourceIsIPv4) /\ (AddressedOnce' <=> AddressedOnce)
  BY <1>0, SameGiven DEF AgainInv
<1>2. /\ Zapping => ZapLeft
      /\ Migrating /\ ~Self => MigrateLeft
      /\ Cloning => CloneKept /\ CloneLeft
      /\ Setting => SetLeft
      /\ Self => SelfLeft /\ netbox = was
  BY <1>0, <1>1 DEF DoneInv, ZapInv, MigrateInv, CloneInv, SetInv, SelfInv, Self
<1>3. Fit
  BY <1>0, <1>1 DEF WaitsInv, Begun
<1>4. ASSUME Cloning
      PROVE  /\ OnceOnEach' => OnceOnEach
             /\ NoIPv6 => NoIPv6'
             /\ OnceOnEach => OnceOnEach' /\ CloneTodo' /\ CloneFit'
  <2>1. /\ OnceOnEach' => OnceOnEach
        /\ NoIPv6 => NoIPv6'
        /\ OnceOnEach /\ CloneTodo => OnceOnEach'
    BY <1>0, <1>2, <1>4, PlainStays
  <2>2. OnceOnEach => CloneTodo /\ CloneFit
    BY <1>0, <1>1, <1>3, <1>4 DEF TodoInv, Fit
  <2>3. OnceOnEach => CloneTodo'
    BY <1>0, <1>2, <1>4, <2>2, CloneTodoStays
  <2>4. OnceOnEach => CloneFit'
    BY <1>0, <1>2, <1>4, <2>2, CloneStaysFit
  <2> QED BY <2>1, <2>2, <2>3, <2>4
<1>5. Fit'
  <2>1. Zapping => ZapFit'
    BY <1>0, <1>2, <1>3, ZapStaysFit DEF Fit
  <2>2. Setting => SetFit'
    BY <1>0, <1>2, <1>3, SetStaysFit DEF Fit
  <2> QED BY <1>1, <1>4, <2>1, <2>2 DEF Fit
<1>6. Self => netbox' = was' /\ SelfLeft'
  BY <1>0, <1>2, SelfStays
<1>7. WaitsInv'
  <2>1. ASSUME before' = cmd'
        PROVE  netbox' = was' /\ Settled' /\ Self'
    <3>1. Self
      BY <1>0, <1>1, <2>1 DEF WaitsInv
    <3>2. Settled'
      BY <1>1, <3>1, OneCommand DEF Settled, Self
    <3> QED BY <1>1, <1>6, <3>1, <3>2
  <2> QED BY <1>0, <1>5, <2>1 DEF WaitsInv
<1>8. PlainInv' /\ TodoInv'
  BY <1>1, <1>4 DEF PlainInv, TodoInv
<1>9. FindInv'
  <2>1. InterfacesDone(w)
    BY <1>0, WorkDoes
  <2>2. ASSUME NEW u \in works', w.op = "DeleteInterface",
               u.op \in {"ReassignIPAddress", "AssignIPAddress"}
        PROVE  w.id \notin Named(u.port, u.sub)
    <3>0. u \in works /\ (Zapping \/ Migrating \/ Cloning \/ Setting)
      BY <1>0, <2>2, CommandIs
    <3>1. CASE Zapping
      BY <1>2, <2>2, <3>0, <3>1 DEF ZapLeft
    <3>2. CASE Setting
      BY <1>2, <2>2, <3>0, <3>2 DEF SetLeft
    <3>3. CASE Cloning
      BY <1>2, <2>2, <3>0, <3>3 DEF CloneLeft
    <3>4. CASE Migrating /\ ~Self
      BY <1>2, <2>2, <3>0, <3>4 DEF MigrateLeft, Self, Named
    <3>5. CASE Self
      BY <1>2, <2>2, <3>0, <3>5 DEF SelfLeft
    <3> QED BY <3>0, <3>1, <3>2, <3>3, <3>4, <3>5
  <2>3. ASSUME NEW u \in works' PROVE Findable(u)'
    <3>1. Findable(u)
      BY <1>0, <1>1 DEF FindInv
    <3> QED BY <1>0, <2>1, <2>2, <3>1, FindStays
  <2> QED BY <2>3 DEF FindInv
<1>10. SelfInv'
  BY <1>1, <1>6 DEF SelfInv
<1>11. NoCableInv'
  <2>1. ASSUME Migrating, was.at[cmd.src] = None PROVE at' = at
    BY <1>0, <1>1, <2>1, WorkAfter DEF NoCableInv
  <2> QED BY <1>0, <1>1, <2>1 DEF NoCableInv
<1>12. SourceInv'
  <2>1. CASE Migrating /\ ~Self
    BY <1>0, <1>1, <1>2, <2>1, SourceStays DEF Self
  <2>2. CASE ~Migrating \/ Self
    BY <1>1, <2>2 DEF SourceInv, Self
  <2> QED BY <2>1, <2>2
<1> QED BY <1>7, <1>8, <1>9, <1>10, <1>11, <1>12 DEF AgainInv

\* Whatever else a run does, it plans and writes nothing.
LEMMA RestAgain ==
  ASSUME TypeInv, TypeInv', AgainInv, Alone,
         (\E w \in works : WorkFails(w)) \/ Stop \/ Finish \/ RunAgain \/ UNCHANGED vars
  PROVE  AgainInv'
<1>0. /\ NetBoxOK /\ script \in Seq(Command) \ {<< >>} /\ run \in Nat \ {0}
      /\ ifs' = ifs /\ ips' = ips /\ at' = at /\ script' = script /\ was' = was /\ before' = before
  BY DEF TypeInv, ScalarsOK, WorkFails, Stop, Finish, RunAgain, vars, rest
<1>1. /\ WaitsInv /\ PlainInv /\ TodoInv /\ FindInv /\ SelfInv /\ NoCableInv /\ SourceInv
      /\ cmd' = cmd
      /\ (Zapping' <=> Zapping) /\ (Setting' <=> Setting) /\ (Cloning' <=> Cloning)
      /\ (Migrating' <=> Migrating) /\ (Self' <=> Self) /\ (Resumable' <=> Resumable)
      /\ netbox' = netbox /\ PlainInv' /\ SourceInv'
  BY <1>0, SameGiven, PlainSame DEF AgainInv
<1>2. ASSUME NEW w \in works, WorkFails(w) PROVE pc = "do" /\ pc' = "refused" /\ run' = run
  <2>1. Resolves(w)
    BY <1>0, <1>1, <1>2, FoundWhenNext DEF FindInv, WorkFails, NetBoxOK
  <2> QED BY <1>2, <2>1 DEF WorkFails, rest
<1>3. /\ Begun' => Begun
      /\ \/ pc' \in {"refused", "stopped"}
         \/ pc' = "plan" /\ run' # 1
         \/ pc' = pc /\ run' = run /\ works' = works
         \/ pc = "do" /\ pc' = "done" /\ works' = works
  <2>1. CASE \E w \in works : WorkFails(w)
    BY <1>0, <1>1, <1>2, <2>1 DEF Begun
  <2>2. CASE Stop
    BY <1>0, <1>1, <2>2 DEF Begun, Stop
  <2>3. CASE Finish
    BY <1>0, <1>1, <2>3 DEF Begun, Finish
  <2>4. CASE RunAgain
    BY <1>0, <1>1, <2>4 DEF Begun, RunAgain
  <2>5. CASE UNCHANGED vars
    BY <1>0, <1>1, <2>5 DEF Begun, vars
  <2> QED BY <2>1, <2>2, <2>3, <2>4, <2>5
<1>4. /\ Fit => Fit'
      /\ Settled => Settled'
  BY <1>0, <1>1, FitStays
<1>5. \A port : /\ TreeIsSound(port)' <=> TreeIsSound(port)
                /\ SubsOf(port)' = SubsOf(port)
                /\ CableForks(port)' <=> CableForks(port)
  BY <1>0, SameTrees
<1>6. WaitsInv'
  <2>1. Begun' => Fit'
    BY <1>1, <1>3, <1>4 DEF WaitsInv
  <2>2. \A port \in Ports : before' = Zap(<<port>>) /\ run' = 1 /\ pc' = "plan" =>
            TreeIsSound(port)' /\ (SubsOf(port) = {})'
    BY <1>0, <1>1, <1>3, <1>5 DEF WaitsInv
  <2>3. pc' = "failed" => pc = "failed" /\ run' = run
    BY <1>3
  <2>4. AfterZap' /\ pc' = "failed" => AfterZap
    BY <1>0, <1>1, <2>3 DEF AfterZap, Zap
  <2>5. pc' = "failed" =>
            /\ Resumable => netbox' = was' /\ before' # cmd'
            /\ AfterZap => ~TreeIsSound(cmd.src) \/ CableForks(cmd.src)
    BY <1>0, <1>1, <2>3 DEF WaitsInv
  <2>6. before' = cmd' => netbox' = was' /\ Settled' /\ (pc' \in {"do", "done"} => Self' \/ works' = {})
    BY <1>0, <1>1, <1>3, <1>4 DEF WaitsInv
  <2> QED BY <1>1, <1>5, <2>1, <2>2, <2>4, <2>5, <2>6 DEF WaitsInv, Zap
<1>7. works' = works => /\ CloneTodo => CloneTodo'
                        /\ SelfLeft => SelfLeft'
                        /\ \A w : Findable(w) => Findable(w)'
  BY <1>0, <1>1, TodoStays
<1>8. TodoInv'
  <2>1. OnceOnEach' <=> OnceOnEach
    BY <1>0, SameAddresses
  <2> QED BY <1>1, <1>3, <1>7, <2>1 DEF TodoInv
<1>9. FindInv'
  BY <1>1, <1>3, <1>7 DEF FindInv
<1>10. SelfInv'
  BY <1>0, <1>1, <1>3, <1>7 DEF SelfInv
<1>11. NoCableInv'
  BY <1>0, <1>1, <1>3 DEF NoCableInv
<1> QED BY <1>1, <1>6, <1>8, <1>9, <1>10, <1>11 DEF AgainInv

\* The next command, which may be the same.
LEMMA CommandAgain ==
  ASSUME TypeInv, TypeInv', DoneInv, AgainInv, Alone, NextCommand
  PROVE  AgainInv'
<1>0. /\ NetBoxOK /\ NetBoxOK' /\ script \in Seq(Command) \ {<< >>}
      /\ ifs' = ifs /\ ips' = ips /\ at' = at /\ pc = "done" /\ pc' = "plan"
      /\ before' = cmd /\ was' = netbox /\ netbox' = netbox
  BY DEF TypeInv, ScalarsOK, NextCommand, netbox
<1>1. Settled /\ Fit
  BY <1>0, Settles DEF AgainInv, WaitsInv, Begun
<1>2. WaitsInv'
  <2>1. ASSUME cmd' = cmd PROVE Fit' /\ Settled'
    BY <1>0, <1>1, <2>1, FitStays
  <2>2. ASSUME NEW port \in Ports, before' = Zap(<<port>>)
        PROVE  TreeIsSound(port)' /\ (SubsOf(port) = {})'
    <3>1. Zapping /\ cmd.targets = <<port>>
      BY <1>0, <2>2 DEF Zap, Zapping
    <3>2. port \in Range(cmd.targets)
      BY <3>1 DEF Range
    <3>3. TreeIsSound(port) /\ SubsOf(port) = {}
      BY <1>0, <1>1, <3>1, <3>2, ZapLeavesSound DEF Fit, Settled
    <3> QED BY <1>0, <3>3, SameTrees
  <2>3. Begun' => Fit'
    BY <1>0, <2>1 DEF Begun
  <2> QED BY <1>0, <2>1, <2>2, <2>3 DEF WaitsInv, Zap
<1>3. PlainInv'
  <2>1. (NetBoxOK /\ was = netbox => PlainInv)'
    BY PlainBegins, PTL
  <2> QED BY <1>0, <2>1
<1>4. (was = netbox)' /\ pc' = "plan"
  BY <1>0
<1>5. TodoInv' /\ FindInv' /\ SelfInv'
  BY <1>4 DEF TodoInv, FindInv, SelfInv
<1>6. NoCableInv' /\ SourceInv'
  BY <1>4 DEF NoCableInv, SourceInv, netbox, WasOn
<1> QED BY <1>2, <1>3, <1>5, <1>6 DEF AgainInv

LEMMA InitAgainInv == Init => AgainInv
<1> SUFFICES ASSUME Init PROVE AgainInv
  OBVIOUS
<1>0. /\ NetBoxOK /\ was = netbox /\ before = NoCommand /\ pc = "plan" /\ works = {}
      /\ script \in Seq(Command) \ {<< >>}
  BY InitTypeInv DEF TypeInv, ScalarsOK, Init
<1>1. before # cmd /\ \A port : before # Zap(<<port>>)
  <2>1. cmd \in Command
    BY <1>0, CommandIs
  <2>2. cmd.name # "none"
    BY <2>1 DEF Command
  <2>3. before.name = "none"
    BY <1>0 DEF NoCommand
  <2>4. \A port : Zap(<<port>>).name = "zap"
    BY DEF Zap
  <2> QED BY <2>2, <2>3, <2>4
<1>2. WaitsInv
  BY <1>0, <1>1 DEF WaitsInv, Begun
<1>3. PlainInv
  BY <1>0, PlainBegins
<1>4. TodoInv /\ FindInv /\ SelfInv
  BY <1>0 DEF TodoInv, FindInv, SelfInv
<1>5. NoCableInv /\ SourceInv
  BY <1>0 DEF NoCableInv, SourceInv, netbox, WasOn
<1> QED BY <1>2, <1>3, <1>4, <1>5 DEF AgainInv

LEMMA NextAgainInv ==
  ASSUME EndsDoNotClash
  PROVE  TypeInv /\ TypeInv' /\ DoneInv /\ AgainInv /\ [Next]_vars => AgainInv'
<1> SUFFICES ASSUME TypeInv, TypeInv', DoneInv, AgainInv, [Next]_vars, Alone'
             PROVE  AgainInv'
  BY DEF AgainInv
<1>1. ASSUME NEW i, (\E ip : SomeoneAssigns(ip, i)) \/ SomeoneDeletes(i) PROVE FALSE
  <2>1. edits' = edits + 1 /\ edits \in Nat
    BY <1>1 DEF SomeoneAssigns, SomeoneDeletes, TypeInv, ScalarsOK
  <2> QED BY <2>1 DEF Alone
<1>2. Alone
  <2>1. edits' = edits
    BY <1>1 DEF Next, Plan, DoWork, WorkFails, Stop, Finish, RunAgain, NextCommand, vars, rest
  <2> QED BY <2>1 DEF Alone
<1> QED BY <1>1, <1>2, PlanAgain, WorkAgain, RestAgain, CommandAgain DEF Next

\* Wherever runs of zap-interface, set-interface-type and clone-interface stop,
\* plan() accepts what they have left; after a run that succeeded the same command
\* plans nothing that changes NetBox; and migrate-interface accepts a target that
\* was zapped.  For any NetBoxes, any scripts and any number of runs.
THEOREM WhatCanBeGivenAgain ==
  ASSUME EndsDoNotClash
  PROVE  Spec => []CanBeGivenAgain
<1>1. Init => TypeInv /\ DoneInv /\ AgainInv
  BY InitTypeInv, InitDoneInv, InitAgainInv
<1>2. TypeInv /\ DoneInv /\ AgainInv /\ [Next]_vars => (TypeInv /\ DoneInv /\ AgainInv)'
  BY NextTypeInv, NextDoneInv, NextAgainInv
<1>3. AgainInv => CanBeGivenAgain
  BY DEF AgainInv, WaitsInv, AfterZap, CanBeGivenAgain
<1> QED BY <1>1, <1>2, <1>3, PTL DEF Spec
=============================================================================
