------------------------ MODULE SetInterfaceIp_proofs ------------------------
(***************************************************************************)
(* Proofs about SetInterfaceIp, for any interfaces and addresses and any   *)
(* number of lines.  What is left of a plan says how far the interface is  *)
(* from what its line wants; a plan does not do what its line does not     *)
(* want, also when others write meanwhile.                                 *)
(***************************************************************************)
EXTENDS SetInterfaceIp, FiniteSetTheorems, TLAPS

\* The works of a line, whatever their order.
Items(v) ==
    {Work("reassign", r, v) : r \in Taken(v)} \cup
    {Work("delete", r, v) : r \in Dropped(v)} \cup
    (IF Kept(v) = {} THEN {Work("assign", None, v)} ELSE {}) \cup
    {Work("modify", r, v) : r \in Fixed(v)}

Elements(s) == {s[k] : k \in DOMAIN s}

-----------------------------------------------------------------------------
\* Plans.

LEMMA OrderElements ==
    ASSUME NEW S, IsFiniteSet(S), NEW order \in SetToSeqs(S)
    PROVE  order \in Seq(S) /\ Elements(order) = S
<1>1. /\ order \in [1 .. Cardinality(S) -> S]
      /\ \A i, j \in 1 .. Cardinality(S) : i # j => order[i] # order[j]
  BY DEF SetToSeqs
<1>2. Cardinality(S) \in Nat
  BY FS_CardinalityType
<1>3. order \in Injection(1 .. Cardinality(S), S)
  BY <1>1 DEF Injection, IsInjective
<1>4. IsFiniteSet(1 .. Cardinality(S)) /\ Cardinality(1 .. Cardinality(S)) = Cardinality(S)
  BY <1>2, FS_Interval
<1>5. order \in Surjection(1 .. Cardinality(S), S)
  BY <1>3, <1>4, FS_Injection
<1> QED
  BY <1>1, <1>2, <1>5 DEF Surjection, Elements

LEMMA ConcatElements ==
    ASSUME NEW S, NEW s \in Seq(S), NEW t \in Seq(S)
    PROVE  s \o t \in Seq(S) /\ Elements(s \o t) = Elements(s) \cup Elements(t)
<1>1. s \o t \in Seq(S) /\ Len(s \o t) = Len(s) + Len(t)
  OBVIOUS
<1>2. ASSUME NEW k \in DOMAIN s
      PROVE  k \in DOMAIN (s \o t) /\ (s \o t)[k] = s[k]
  BY <1>1
<1>3. ASSUME NEW k \in DOMAIN t
      PROVE  Len(s) + k \in DOMAIN (s \o t) /\ (s \o t)[Len(s) + k] = t[k]
  BY <1>1
<1>4. ASSUME NEW k \in DOMAIN (s \o t)
      PROVE  (s \o t)[k] \in Elements(s) \cup Elements(t)
  <2>1. CASE k <= Len(s)
    BY <1>1, <2>1 DEF Elements
  <2>2. CASE k > Len(s)
    <3>1. k - Len(s) \in DOMAIN t /\ (s \o t)[k] = t[k - Len(s)]
      BY <1>1, <2>2
    <3> QED
      BY <3>1 DEF Elements
  <2> QED
    BY <1>1, <2>1, <2>2
<1>5. ASSUME NEW e \in Elements(s) \cup Elements(t)
      PROVE  e \in Elements(s \o t)
  BY <1>2, <1>3 DEF Elements
<1>6. Elements(s \o t) \subseteq Elements(s) \cup Elements(t)
  BY <1>4 DEF Elements
<1> QED
  BY <1>1, <1>5, <1>6

\* At most one address is added for a line.
NoAssign(s) == \A k \in DOMAIN s : s[k].op # "assign"
OneAssign(s) ==
    \A j, k \in DOMAIN s : s[j].op = "assign" /\ s[k].op = "assign" => j = k

LEMMA ConcatAssigns ==
    ASSUME NEW S, NEW s \in Seq(S), NEW t \in Seq(S)
    PROVE  /\ NoAssign(s) /\ NoAssign(t) => NoAssign(s \o t)
           /\ NoAssign(s) /\ OneAssign(t) => OneAssign(s \o t)
           /\ OneAssign(s) /\ NoAssign(t) => OneAssign(s \o t)
<1>1. s \o t \in Seq(S) /\ Len(s \o t) = Len(s) + Len(t)
  OBVIOUS
<1>2. ASSUME NEW k \in DOMAIN (s \o t)
      PROVE  \/ k \in DOMAIN s /\ (s \o t)[k] = s[k]
             \/ k - Len(s) \in DOMAIN t /\ (s \o t)[k] = t[k - Len(s)]
  BY <1>1
<1>3. NoAssign(s) /\ NoAssign(t) => NoAssign(s \o t)
  BY <1>2 DEF NoAssign
<1>4. ASSUME NEW j \in DOMAIN (s \o t), NEW k \in DOMAIN (s \o t),
             (s \o t)[j].op = "assign", (s \o t)[k].op = "assign",
             \/ NoAssign(s) /\ OneAssign(t)
             \/ OneAssign(s) /\ NoAssign(t)
      PROVE  j = k
  <2>1. j \in Nat /\ k \in Nat /\ Len(s) \in Nat
    BY <1>1
  <2>2. CASE NoAssign(s) /\ OneAssign(t)
    <3>1. j - Len(s) \in DOMAIN t /\ k - Len(s) \in DOMAIN t
          /\ t[j - Len(s)].op = "assign" /\ t[k - Len(s)].op = "assign"
      BY <1>2, <1>4, <2>2 DEF NoAssign
    <3>2. j - Len(s) = k - Len(s)
      BY <2>2, <3>1 DEF OneAssign
    <3> QED
      BY <2>1, <3>2
  <2>3. CASE OneAssign(s) /\ NoAssign(t)
    <3>1. j \in DOMAIN s /\ k \in DOMAIN s /\ s[j].op = "assign" /\ s[k].op = "assign"
      BY <1>2, <1>4, <2>3 DEF NoAssign
    <3> QED
      BY <2>3, <3>1 DEF OneAssign
  <2> QED
    BY <1>4, <2>2, <2>3
<1> QED
  BY <1>3, <1>4 DEF OneAssign

LEMMA EachElements ==
    ASSUME NEW S, IsFiniteSet(S), NEW order \in SetToSeqs(S), NEW op, NEW v
    PROVE  /\ Each(op, order, v) \in Seq({Work(op, r, v) : r \in S})
           /\ Elements(Each(op, order, v)) = {Work(op, r, v) : r \in S}
<1>1. order \in Seq(S) /\ Elements(order) = S
  BY OrderElements
<1>2. Each(op, order, v) \in Seq({Work(op, r, v) : r \in S})
  BY <1>1 DEF Each
<1>3. Elements(Each(op, order, v)) = {Work(op, order[k], v) : k \in DOMAIN order}
  BY DEF Each, Elements
<1>4. ASSUME NEW r \in S
      PROVE  \E k \in DOMAIN order : order[k] = r
  BY <1>1 DEF Elements
<1>5. ASSUME NEW k \in DOMAIN order
      PROVE  order[k] \in S
  BY <1>1 DEF Elements
<1> QED
  BY <1>2, <1>3, <1>4, <1>5

LEMMA PlanElements ==
    ASSUME NEW v, NEW plan, plan \in Plans(v)
    PROVE  plan \in Seq(Items(v)) /\ Elements(plan) = Items(v) /\ OneAssign(plan)
<1>1. PICK o \in Orders(v) : plan = InOrder(o, v)
  BY DEF Plans
<1>2. IsFiniteSet(Taken(v)) /\ IsFiniteSet(Dropped(v)) /\ IsFiniteSet(Fixed(v))
  <2>1. Taken(v) \subseteq Ids /\ Dropped(v) \subseteq Ids /\ Fixed(v) \subseteq Ids
    BY DEF Taken, Dropped, Fixed, Kept, Good, MyOther, Elsewhere, OnIface, Found, Held
  <2> QED
    BY <2>1, PlacesAssumption, FS_Subset
<1> DEFINE taken == o[1]
           dropped == o[2]
           fixed == o[3]
<1>0. /\ taken \in SetToSeqs(Taken(v))
      /\ dropped \in SetToSeqs(Dropped(v))
      /\ fixed \in SetToSeqs(Fixed(v))
  BY DEF Orders
<1>10. plan = Each("reassign", taken, v) \o Each("delete", dropped, v)
                  \o (IF Kept(v) = {} THEN <<Work("assign", None, v)>> ELSE << >>)
                  \o Each("modify", fixed, v)
  BY <1>1 DEF InOrder
<1> HIDE DEF taken, dropped, fixed
<1> DEFINE assign == IF Kept(v) = {} THEN <<Work("assign", None, v)>> ELSE << >>
           A == Each("reassign", taken, v)
           B == Each("delete", dropped, v)
           C == Each("modify", fixed, v)
           assigned == IF Kept(v) = {} THEN {Work("assign", None, v)} ELSE {}
<1>3. A \in Seq(Items(v)) /\ Elements(A) = {Work("reassign", r, v) : r \in Taken(v)}
  <2>1. /\ A \in Seq({Work("reassign", r, v) : r \in Taken(v)})
        /\ Elements(A) = {Work("reassign", r, v) : r \in Taken(v)}
    BY <1>0, <1>2, EachElements
  <2> QED
    BY <2>1 DEF Items
<1>4. B \in Seq(Items(v)) /\ Elements(B) = {Work("delete", r, v) : r \in Dropped(v)}
  <2>1. /\ B \in Seq({Work("delete", r, v) : r \in Dropped(v)})
        /\ Elements(B) = {Work("delete", r, v) : r \in Dropped(v)}
    BY <1>0, <1>2, EachElements
  <2> QED
    BY <2>1 DEF Items
<1>5. C \in Seq(Items(v)) /\ Elements(C) = {Work("modify", r, v) : r \in Fixed(v)}
  <2>1. /\ C \in Seq({Work("modify", r, v) : r \in Fixed(v)})
        /\ Elements(C) = {Work("modify", r, v) : r \in Fixed(v)}
    BY <1>0, <1>2, EachElements
  <2> QED
    BY <2>1 DEF Items
<1>6. assign \in Seq(Items(v)) /\ Elements(assign) = assigned
  <2>1. CASE Kept(v) = {}
    <3>1. Work("assign", None, v) \in Items(v)
      BY <2>1 DEF Items
    <3>2. assign = <<Work("assign", None, v)>> /\ assigned = {Work("assign", None, v)}
      BY <2>1
    <3> QED
      BY <3>1, <3>2 DEF Elements
  <2>2. CASE Kept(v) # {}
    BY <2>2 DEF Elements
  <2> QED
    BY <2>1, <2>2
<1>13. NoAssign(A) /\ NoAssign(B) /\ NoAssign(C) /\ OneAssign(assign)
  BY DEF NoAssign, OneAssign, Each, Work
<1> HIDE DEF A, B, C, assign, assigned
<1> DEFINE AB == A \o B
           ABD == AB \o assign
<1>7. AB \in Seq(Items(v)) /\ Elements(AB) = Elements(A) \cup Elements(B)
  BY <1>3, <1>4, ConcatElements
<1>11. plan = ABD \o C
  BY <1>10 DEF A, B, C, assign
<1>14. NoAssign(AB)
  BY <1>3, <1>4, <1>13, ConcatAssigns
<1> HIDE DEF AB
<1>15. OneAssign(ABD)
  BY <1>6, <1>7, <1>13, <1>14, ConcatAssigns
<1>8. ABD \in Seq(Items(v)) /\ Elements(ABD) = Elements(AB) \cup Elements(assign)
  BY <1>6, <1>7, ConcatElements
<1> HIDE DEF ABD
<1>9. ABD \o C \in Seq(Items(v)) /\ Elements(ABD \o C) = Elements(ABD) \cup Elements(C)
  BY <1>5, <1>8, ConcatElements
<1>16. OneAssign(ABD \o C)
  BY <1>5, <1>8, <1>13, <1>15, ConcatAssigns
<1>12. Items(v) = Elements(A) \cup Elements(B) \cup Elements(assign) \cup Elements(C)
  BY <1>3, <1>4, <1>5, <1>6 DEF Items, assigned
<1> QED
  BY <1>7, <1>8, <1>9, <1>11, <1>12, <1>16

-----------------------------------------------------------------------------
\* The types, and what is planned.

Ops == {"reassign", "delete", "assign", "modify"}
WorkSet == [op : Ops, id : Ids \cup {None}, to : Interfaces, ip : Addrs]

Typed ==
    /\ TypeOK
    /\ works \in Seq(WorkSet)
    /\ IsCommand(cmd)
    /\ pc \in {"next", "do"} => cmd.vrf \in VRFs

\* What the k-th work is allowed to do, as long as its record is there.
Justified(k) ==
    /\ works[k].to = Iface(Line) /\ works[k].ip = Line.ip
    /\ works[k].op # "assign" => works[k].id \in Ids /\ recs[works[k].id] # None
    /\ works[k].op = "reassign" =>
           /\ cmd.force
           /\ (works[k].id \in Held =>
                   recs[works[k].id].addr = Line.ip /\ ~recs[works[k].id].anycast)
    /\ works[k].op = "delete" =>
           /\ cmd.single
           /\ (works[k].id \in Held => recs[works[k].id].addr # Line.ip)
    /\ works[k].op = "modify" =>
           (works[k].id \in Held => recs[works[k].id].addr = Line.ip)

PlanOK ==
    pc = "do" =>
        /\ line <= Len(cmd.lines)
        /\ Iface(Line) \in Interfaces
        /\ \A k \in DOMAIN works : Justified(k)
        /\ OneAssign(works)

-----------------------------------------------------------------------------
\* What the writes make of the records.

Table == [Ids -> Record \cup {None, Deleted}]
OthersStay(i) == \A r \in Ids \ {i} : recs'[r] = recs[r]

Moved(i) == [addr |-> recs[i].addr, on |-> Iface(Line), vrf |-> cmd.vrf,
             status |-> cmd.status, anycast |-> recs[i].anycast]
Modified(i) == [addr |-> recs[i].addr, on |-> recs[i].on, vrf |-> cmd.vrf,
                status |-> cmd.status, anycast |-> recs[i].anycast]
Added == [addr |-> Line.ip, on |-> Iface(Line), vrf |-> cmd.vrf,
          status |-> cmd.status, anycast |-> FALSE]

LEMMA HeldAreRecords ==
    ASSUME Typed, NEW r \in Held
    PROVE  r \in Ids /\ recs[r] \in Record
BY DEF Typed, TypeOK, Held

LEMMA LineIsOne ==
    ASSUME Typed, line <= Len(cmd.lines)
    PROVE  Line \in [target : Targets, ip : Addrs]
<1> DEFINE S == [target : Targets, ip : Addrs]
<1>1. line \in DOMAIN cmd.lines /\ cmd.lines \in Seq(S)
  BY DEF Typed, TypeOK, IsCommand
<1> HIDE DEF S
<1>2. cmd.lines[line] \in S
  BY <1>1
<1> QED
  BY <1>2 DEF Line, S

LEMMA Verdicts ==
    ASSUME Typed, line <= Len(cmd.lines)
    PROVE  /\ Verdict(Line) \in {"fine", "StateError", "crashed"}
           /\ Verdict(Line) = "fine" =>
                  /\ Iface(Line) \in Interfaces /\ ~Anycast(Line)
                  /\ Elsewhere(Line) = Taken(Line) /\ ~Unnameable(Line)
<1>1. Iface(Line) \in Interfaces \cup {Unrecognised, Unassigned}
  BY LineIsOne, PlacesAssumption DEF Iface
<1> QED
  BY <1>1, PlacesAssumption DEF Verdict, Taken

\* The work that is done next.
LEMMA Current ==
    ASSUME Typed, PlanOK, NEW op, Doing(op)
    PROVE  /\ pos \in DOMAIN works /\ works[pos].op = op /\ pc = "do"
           /\ Justified(pos)
           /\ Iface(Line) \in Interfaces
           /\ Line \in [target : Targets, ip : Addrs]
           /\ cmd.vrf \in VRFs /\ cmd.status \in Statuses
<1>1. /\ pos \in Nat \ {0} /\ pos <= Len(works) /\ works \in Seq(WorkSet)
      /\ pc = "do" /\ works[pos].op = op
  BY DEF Typed, TypeOK, Doing
<1>2. pos \in DOMAIN works
  BY <1>1
<1>3. line <= Len(cmd.lines)
  BY <1>1 DEF PlanOK
<1>4. Line \in [target : Targets, ip : Addrs]
  BY <1>3, LineIsOne
<1>5. cmd.vrf \in VRFs /\ cmd.status \in Statuses
  BY <1>1 DEF Typed, IsCommand
<1>6. Justified(pos) /\ Iface(Line) \in Interfaces
  BY <1>1, <1>2 DEF PlanOK
<1> QED
  BY <1>1, <1>2, <1>4, <1>5, <1>6

LEMMA Configured ==
    ASSUME NEW rec \in Record, NEW status \in Statuses, NEW vrf \in VRFs
    PROVE  [[rec EXCEPT !.status = status] EXCEPT !.vrf = vrf]
               = [addr |-> rec.addr, on |-> rec.on, vrf |-> vrf, status |-> status,
                  anycast |-> rec.anycast]
<1> DEFINE q == [rec EXCEPT !.status = status]
           p == [q EXCEPT !.vrf = vrf]
<1>1. /\ q \in Record /\ q.status = status
      /\ q.addr = rec.addr /\ q.on = rec.on /\ q.anycast = rec.anycast
  BY DEF Record
<1> HIDE DEF q
<1>2. /\ p \in Record /\ p.vrf = vrf /\ p.status = q.status
      /\ p.addr = q.addr /\ p.on = q.on /\ p.anycast = q.anycast
  BY <1>1 DEF Record
<1> HIDE DEF p
<1>3. p = [addr |-> p.addr, on |-> p.on, vrf |-> p.vrf, status |-> p.status,
           anycast |-> p.anycast]
  BY <1>2 DEF Record
<1>4. p = [addr |-> rec.addr, on |-> rec.on, vrf |-> vrf, status |-> status,
           anycast |-> rec.anycast]
  BY <1>1, <1>2, <1>3
<1> QED
  BY <1>4 DEF p, q

LEMMA ReassignDoes ==
    ASSUME Typed, PlanOK, ReassignIPAddress, NEW i, i = works[pos].id
    PROVE  /\ i \in Held /\ Moved(i) \in Record
           /\ recs' \in Table /\ recs'[i] = Moved(i) /\ OthersStay(i)
<1>1. Doing("reassign") /\ i \in Held
  BY DEF ReassignIPAddress
<1>2. Justified(pos) /\ Iface(Line) \in Interfaces /\ works[pos].to = Iface(Line)
      /\ cmd.vrf \in VRFs /\ cmd.status \in Statuses
  BY <1>1, Current DEF Justified
<1>3. recs \in Table /\ i \in Ids /\ recs[i] \in Record
  BY <1>1, HeldAreRecords DEF Typed, TypeOK, Table
<1>4. Moved(i) \in Record
  BY <1>2, <1>3 DEF Moved, Record
<1>5. [[[recs[i] EXCEPT !.on = Iface(Line)] EXCEPT !.status = cmd.status] EXCEPT !.vrf = cmd.vrf]
          = Moved(i)
  <2> DEFINE q == [recs[i] EXCEPT !.on = Iface(Line)]
  <2>1. /\ q \in Record /\ q.on = Iface(Line)
        /\ q.addr = recs[i].addr /\ q.anycast = recs[i].anycast
    BY <1>2, <1>3 DEF Record
  <2> HIDE DEF q
  <2>2. [[q EXCEPT !.status = cmd.status] EXCEPT !.vrf = cmd.vrf]
            = [addr |-> q.addr, on |-> q.on, vrf |-> cmd.vrf, status |-> cmd.status,
               anycast |-> q.anycast]
    BY <1>2, <2>1, Configured
  <2> QED
    BY <2>1, <2>2 DEF Moved, q
<1>6. recs' = [recs EXCEPT ![i].on = Iface(Line), ![i].status = cmd.status, ![i].vrf = cmd.vrf]
  BY <1>2 DEF ReassignIPAddress
<1>7. recs'[i] = Moved(i) /\ DOMAIN recs' = Ids /\ OthersStay(i)
  BY <1>3, <1>5, <1>6 DEF Table, OthersStay
<1>8. recs' = [recs EXCEPT ![i] = Moved(i)]
  BY <1>3, <1>5, <1>6 DEF Table
<1> QED
  BY <1>1, <1>3, <1>4, <1>7, <1>8 DEF Table

LEMMA ModifyDoes ==
    ASSUME Typed, PlanOK, ModifyIPAddress, NEW i, i = works[pos].id
    PROVE  /\ i \in Held /\ Modified(i) \in Record
           /\ recs' \in Table /\ recs'[i] = Modified(i) /\ OthersStay(i)
<1>1. Doing("modify") /\ i \in Held
  BY DEF ModifyIPAddress
<1>2. cmd.vrf \in VRFs /\ cmd.status \in Statuses
  BY <1>1, Current
<1>3. recs \in Table /\ i \in Ids /\ recs[i] \in Record
  BY <1>1, HeldAreRecords DEF Typed, TypeOK, Table
<1>4. Modified(i) \in Record
  BY <1>2, <1>3 DEF Modified, Record
<1>5. [[recs[i] EXCEPT !.status = cmd.status] EXCEPT !.vrf = cmd.vrf] = Modified(i)
  <2> DEFINE q == recs[i]
  <2>1. q \in Record
    BY <1>3
  <2> HIDE DEF q
  <2>2. [[q EXCEPT !.status = cmd.status] EXCEPT !.vrf = cmd.vrf]
            = [addr |-> q.addr, on |-> q.on, vrf |-> cmd.vrf, status |-> cmd.status,
               anycast |-> q.anycast]
    BY <1>2, <2>1, Configured
  <2> QED
    BY <2>2 DEF Modified, q
<1>6. recs' = [recs EXCEPT ![i].status = cmd.status, ![i].vrf = cmd.vrf]
  BY DEF ModifyIPAddress
<1>7. recs'[i] = Modified(i) /\ OthersStay(i)
  BY <1>3, <1>5, <1>6 DEF Table, OthersStay
<1>8. recs' = [recs EXCEPT ![i] = Modified(i)]
  BY <1>3, <1>5, <1>6 DEF Table
<1> QED
  BY <1>1, <1>3, <1>4, <1>7, <1>8 DEF Table

LEMMA DeleteDoes ==
    ASSUME Typed, NEW i \in Held, recs' = [recs EXCEPT ![i] = Deleted]
    PROVE  recs' \in Table /\ recs'[i] = Deleted /\ OthersStay(i)
BY HeldAreRecords DEF Typed, TypeOK, Table, OthersStay

\* By this run or by somebody else.
LEMMA AddDoes ==
    ASSUME Typed, NEW rec \in Record, Add(rec)
    PROVE  \E i \in Ids : /\ recs[i] = None
                          /\ recs' \in Table /\ recs'[i] = rec /\ OthersStay(i)
BY DEF Typed, TypeOK, Table, OthersStay, Add

\* Ids are never used again, and neither the address of a record nor whether it
\* is anycast changes.
RecordsStay ==
    /\ recs' \in Table
    /\ \A r \in Ids : recs[r] # None => recs'[r] # None
    /\ \A r \in Ids : recs[r] # None /\ r \in Held' =>
           /\ r \in Held
           /\ recs'[r].addr = recs[r].addr
           /\ recs'[r].anycast = recs[r].anycast

LEMMA StepRecordsStay == ASSUME Typed, PlanOK, [Next]_vars PROVE RecordsStay
<1> USE SituationsAssumption DEF RecordsStay
<1>1. recs \in Table
  BY DEF Typed, TypeOK, Table
<1>2. CASE UNCHANGED recs
  BY <1>1, <1>2 DEF Held
<1>3. ASSUME NEW i \in Ids, recs' \in Table, OthersStay(i),
             \/ recs[i] = None
             \/ recs'[i] = Deleted
             \/ /\ i \in Held /\ recs'[i] \in Record
                /\ recs'[i].addr = recs[i].addr /\ recs'[i].anycast = recs[i].anycast
      PROVE  RecordsStay
  BY <1>1, <1>3 DEF Held, OthersStay
<1>4. CASE ReassignIPAddress
  <2> DEFINE i == works[pos].id
  <2>1. /\ i \in Held /\ Moved(i) \in Record
        /\ recs' \in Table /\ recs'[i] = Moved(i) /\ OthersStay(i)
    BY <1>4, ReassignDoes
  <2> QED
    BY <2>1, <1>3 DEF Moved, Held
<1>5. CASE ModifyIPAddress
  <2> DEFINE i == works[pos].id
  <2>1. /\ i \in Held /\ Modified(i) \in Record
        /\ recs' \in Table /\ recs'[i] = Modified(i) /\ OthersStay(i)
    BY <1>5, ModifyDoes
  <2> QED
    BY <2>1, <1>3 DEF Modified, Held
<1>6. ASSUME NEW i \in Held, recs' = [recs EXCEPT ![i] = Deleted]
      PROVE  RecordsStay
  BY <1>3, <1>6, DeleteDoes DEF Held
<1>7. ASSUME NEW rec \in Record, Add(rec)
      PROVE  RecordsStay
  BY <1>3, <1>7, AddDoes
<1>8. CASE AssignIPAddress
  <2>1. Doing("assign") /\ Add([addr |-> works[pos].ip, on |-> works[pos].to, vrf |-> cmd.vrf,
                                status |-> cmd.status, anycast |-> FALSE])
    BY <1>8 DEF AssignIPAddress
  <2>2. works[pos].ip \in Addrs /\ works[pos].to \in Interfaces
    <3>1. works[pos] \in WorkSet
      BY <2>1, Current DEF Typed
    <3> QED
      BY <3>1 DEF WorkSet
  <2>3. cmd.vrf \in VRFs /\ cmd.status \in Statuses
    BY <2>1, Current
  <2> QED
    BY <1>7, <2>1, <2>2, <2>3 DEF Record
<1>9. ASSUME NEW r \in Ids, NEW x \in Interfaces \cup {Nothing}, SomeoneMoves(r, x)
      PROVE  RecordsStay
  <2>1. r \in Held /\ recs' = [recs EXCEPT ![r].on = x]
    BY <1>9 DEF SomeoneMoves
  <2>2. recs[r] \in Record
    BY <2>1, HeldAreRecords
  <2>3. [recs[r] EXCEPT !.on = x] \in Record
    BY <2>2 DEF Record
  <2>4. recs'[r] = [recs[r] EXCEPT !.on = x] /\ recs' \in Table /\ OthersStay(r)
    BY <1>1, <2>1, <2>3 DEF Table, OthersStay
  <2>5. recs'[r].addr = recs[r].addr /\ recs'[r].anycast = recs[r].anycast
    BY <2>2, <2>4 DEF Record
  <2> QED
    BY <1>3, <2>1, <2>3, <2>4, <2>5
<1>10. ASSUME NEW addr \in Addrs, NEW x \in Interfaces,
              SomeoneAdds([addr |-> addr, on |-> x, vrf |-> CHOOSE vrf \in VRFs : TRUE,
                           status |-> CHOOSE s \in Statuses : TRUE, anycast |-> FALSE])
       PROVE  RecordsStay
  <2>1. VRFs # {} /\ Statuses # {}
    BY <1>10 DEF SomeoneAdds, Others, Typed, IsCommand
  <2>2. (CHOOSE vrf \in VRFs : TRUE) \in VRFs /\ (CHOOSE s \in Statuses : TRUE) \in Statuses
    BY <2>1
  <2> QED
    BY <1>7, <1>10, <2>2 DEF SomeoneAdds, Record
<1>11. CASE DeleteIPAddress
  BY <1>6, <1>11 DEF DeleteIPAddress
<1>12. ASSUME NEW r \in Ids, SomeoneDeletes(r)
       PROVE  RecordsStay
  BY <1>6, <1>12 DEF SomeoneDeletes
<1>13. CASE Prepare \/ PlanLine \/ LineFails \/ LineDone \/ Finish \/ Stop \/ UNCHANGED vars
  BY <1>2, <1>13 DEF Prepare, PlanLine, LineFails, LineDone, Finish, Stop, vars
<1> QED
  BY <1>4, <1>5, <1>8, <1>9, <1>10, <1>11, <1>12, <1>13 DEF Next

-----------------------------------------------------------------------------
\* The types and the justification of the works are kept.

LEMMA InitOK == Init => Typed /\ PlanOK
<1> SUFFICES ASSUME Init
             PROVE  Typed /\ PlanOK
  OBVIOUS
<1>1. PICK s \in Situations : recs = s.recs /\ cmd = s.cmd
  BY DEF Init
<1>2. recs \in [Ids -> Record \cup {None, Deleted}] /\ IsCommand(cmd)
  BY <1>1, SituationsAssumption
<1>3. TypeOK
  BY <1>2 DEF Init, TypeOK, IsCommand
<1> QED
  BY <1>2, <1>3 DEF Init, Typed, PlanOK

\* plan_one(): what it plans for a line is justified.
LEMMA PlannedIsJustified ==
    ASSUME Typed, PlanLine
    PROVE  works' \in Seq(WorkSet) /\ PlanOK'
<1>1. /\ pc = "next" /\ line <= Len(cmd.lines) /\ Verdict(Line) = "fine"
      /\ works' \in Plans(Line) /\ UNCHANGED <<recs, cmd, line>>
  BY DEF PlanLine
<1>2. Line \in [target : Targets, ip : Addrs]
  BY <1>1, LineIsOne
<1>3. Iface(Line) \in Interfaces /\ ~Anycast(Line)
  BY <1>1, Verdicts
<1>4. works' \in Seq(Items(Line)) /\ Elements(works') = Items(Line) /\ OneAssign(works')
  BY <1>1, PlanElements
<1>5. ASSUME NEW w \in Items(Line)
      PROVE  /\ w \in WorkSet
             /\ w.to = Iface(Line) /\ w.ip = Line.ip
             /\ w.op # "assign" => w.id \in Held
             /\ w.op = "reassign" => w.id \in Taken(Line)
             /\ w.op = "delete" => w.id \in Dropped(Line)
             /\ w.op = "modify" => w.id \in Fixed(Line)
  <2>1. PICK op \in Ops : \E id : w = Work(op, id, Line)
    BY DEF Items, Ops
  <2>2. /\ Taken(Line) \subseteq Held /\ Dropped(Line) \subseteq Held
        /\ Fixed(Line) \subseteq Held /\ Held \subseteq Ids
    BY DEF Taken, Dropped, Fixed, Kept, Good, MyOther, Elsewhere, OnIface, Found, Held
  <2>3. /\ w.op # "assign" => w.id \in Held
        /\ w.op = "reassign" => w.id \in Taken(Line)
        /\ w.op = "delete" => w.id \in Dropped(Line)
        /\ w.op = "modify" => w.id \in Fixed(Line)
        /\ w.op = "assign" => w.id = None
    BY <2>2 DEF Items, Work
  <2> QED
    BY <1>2, <1>3, <2>1, <2>2, <2>3 DEF Work, WorkSet, Ops
<1>6. works' \in Seq(WorkSet)
  BY <1>4, <1>5
<1>7. ASSUME NEW k \in DOMAIN works'
      PROVE  works'[k] \in Items(Line)
  BY <1>4 DEF Elements
<1>8. ASSUME NEW r \in Held, recs[r].addr = Line.ip, recs[r].on = <<"dcim", Iface(Line)[2]>>
      PROVE  r \in Good(Line)
  <2>1. recs[r].on \in Interfaces
    <3>1. recs[r].on \in Interfaces \cup {Nothing}
      BY HeldAreRecords DEF Record
    <3>2. <<"dcim", Iface(Line)[2]>> \in {"dcim", "vm"} \X Nat
      BY <1>3, PlacesAssumption
    <3> QED
      BY <1>8, <3>1, <3>2, PlacesAssumption
  <2> QED
    BY <1>3, <1>8, <2>1 DEF Good, Found, Same
<1>9. ASSUME NEW k \in DOMAIN works'
      PROVE  Justified(k)'
  <2> DEFINE w == works'[k]
  <2>1. w \in Items(Line) /\ cmd' = cmd /\ Line' = Line /\ Held' = Held /\ recs' = recs
    BY <1>1, <1>7 DEF Line, Held
  <2>2. w.op = "reassign" =>
            cmd.force /\ recs[w.id].addr = Line.ip /\ ~recs[w.id].anycast
    BY <1>3, <1>5, <2>1 DEF Taken, Elsewhere, Found, Anycast
  <2>3. w.op = "delete" => cmd.single /\ recs[w.id].addr # Line.ip
    BY <1>5, <1>8, <2>1 DEF Dropped, MyOther, OnIface
  <2>4. w.op = "modify" => recs[w.id].addr = Line.ip
    BY <1>5, <2>1 DEF Fixed, Kept, Good, Taken, Elsewhere, Found
  <2> QED
    BY <1>5, <2>1, <2>2, <2>3, <2>4 DEF Justified, Iface, Held
<1> QED
  BY <1>1, <1>3, <1>4, <1>6, <1>9 DEF PlanOK, Iface, Line

LEMMA NextTyped == Typed /\ PlanOK /\ [Next]_vars => Typed'
<1> SUFFICES ASSUME Typed, PlanOK, [Next]_vars
             PROVE  Typed'
  OBVIOUS
<1>1. recs' \in [Ids -> Record \cup {None, Deleted}]
  BY StepRecordsStay DEF RecordsStay, Table
<1> USE DEF Typed, TypeOK
<1>2. CASE UNCHANGED vars
  BY <1>2 DEF vars
<1>3. CASE Prepare
  BY <1>1, <1>3 DEF Prepare
<1>4. CASE PlanLine
  <2>1. works' \in Seq(WorkSet)
    BY <1>4, PlannedIsJustified
  <2>2. 1 \in 1 .. (Len(works') + 1)
    BY <2>1
  <2> QED
    BY <1>1, <1>4, <2>1, <2>2 DEF PlanLine
<1>5. CASE LineFails
  <2>1. line' \in 1 .. (Len(cmd.lines) + 1) /\ done \subseteq 1 .. (line' - 1)
    BY <1>5 DEF LineFails, IsCommand
  <2>2. pc' \in {"next", "StateError", "crashed"}
    BY <1>5, Verdicts DEF LineFails
  <2> QED
    BY <1>1, <1>5, <2>1, <2>2 DEF LineFails
<1>6. CASE LineDone
  <2>1. line' \in 1 .. (Len(cmd.lines) + 1) /\ done' \subseteq 1 .. (line' - 1)
    BY <1>6 DEF LineDone, PlanOK, IsCommand
  <2> QED
    BY <1>1, <1>6, <2>1 DEF LineDone
<1>7. CASE Finish
  BY <1>1, <1>7 DEF Finish
<1>8. CASE Stop
  BY <1>1, <1>8 DEF Stop
<1>9. CASE ReassignIPAddress \/ DeleteIPAddress \/ AssignIPAddress \/ ModifyIPAddress
  <2>1. pos <= Len(works) /\ Advance
    BY <1>9 DEF ReassignIPAddress, DeleteIPAddress, AssignIPAddress, ModifyIPAddress, Doing
  <2>2. pos' \in 1 .. (Len(works) + 1)
    BY <2>1 DEF Advance
  <2> QED
    BY <1>1, <2>1, <2>2 DEF Advance
<1>10. CASE Others
  <2>1. edits' \in 0 .. cmd.maxEdits
    BY <1>10 DEF Others, IsCommand
  <2> QED
    BY <1>1, <1>10, <2>1 DEF Others
<1> QED
  BY <1>2, <1>3, <1>4, <1>5, <1>6, <1>7, <1>8, <1>9, <1>10
     DEF Next, SomeoneMoves, SomeoneDeletes, SomeoneAdds

LEMMA NextPlanOK == Typed /\ PlanOK /\ [Next]_vars => PlanOK'
<1> SUFFICES ASSUME Typed, PlanOK, [Next]_vars, pc' = "do"
             PROVE  PlanOK'
  BY DEF PlanOK
<1>1. CASE PlanLine
  BY <1>1, PlannedIsJustified
<1>2. CASE ~PlanLine
  <2>0. ~LineFails
    BY Verdicts DEF LineFails
  <2>1. pc = "do" /\ UNCHANGED <<cmd, line, works>>
    BY <1>2, <2>0 DEF Next, vars, Prepare, LineDone, Finish, Stop,
       ReassignIPAddress, DeleteIPAddress, AssignIPAddress, ModifyIPAddress, Doing, Advance,
       SomeoneMoves, SomeoneDeletes, SomeoneAdds, Others
  <2>2. RecordsStay
    BY StepRecordsStay
  <2>3. ASSUME NEW k \in DOMAIN works
        PROVE  Justified(k)'
    <3>1. Justified(k)
      BY <2>1, <2>3 DEF PlanOK
    <3>2. Line' = Line /\ Iface(Line)' = Iface(Line) /\ cmd' = cmd /\ works' = works
      BY <2>1 DEF Line, Iface
    <3> QED
      BY <2>2, <3>1, <3>2 DEF Justified, RecordsStay
  <2> QED
    BY <2>1, <2>3 DEF PlanOK, Line, Iface, OneAssign
<1> QED
  BY <1>1, <1>2

LEMMA Invariance == Spec => [](Typed /\ PlanOK)
<1>1. Typed /\ PlanOK /\ [Next]_vars => (Typed /\ PlanOK)'
  BY NextTyped, NextPlanOK
<1> QED
  BY InitOK, <1>1, PTL DEF Spec

\* The run is in one of its states and the records are records.
THEOREM TypeCorrect == Spec => []TypeOK
<1>1. Typed /\ PlanOK => TypeOK
  BY DEF Typed
<1> QED
  BY <1>1, Invariance, PTL

\* The help of --force and --single, for any number of lines and while others move,
\* add and delete records: only with --force is a record reassigned, and never an anycast
\* one; only with --single is one deleted, and never one of the address of the line.
THEOREM NothingTakenUnasked == Spec => TakesOnlyByForce
<1> DEFINE A == \A r \in Ids :
              /\ Doing("reassign") /\ edits' = edits /\ recs'[r] # recs[r] =>
                     cmd.force /\ ~recs[r].anycast
              /\ Doing("delete") /\ edits' = edits /\ recs'[r] # recs[r] =>
                     cmd.single /\ recs[r].addr # Line.ip
<1>1. ASSUME Typed, PlanOK, [Next]_vars
      PROVE  [A]_vars
  <2> SUFFICES ASSUME NEW r \in Ids, edits' = edits, recs'[r] # recs[r]
               PROVE  /\ Doing("reassign") => cmd.force /\ ~recs[r].anycast
                      /\ Doing("delete") => cmd.single /\ recs[r].addr # Line.ip
    BY DEF vars
  <2> DEFINE i == works[pos].id
  <2>1. ~Others
    BY <1>1 DEF Others, Typed, TypeOK, IsCommand
  <2>2. CASE ReassignIPAddress
    <3>1. i \in Held /\ OthersStay(i) /\ Justified(pos) /\ works[pos].op = "reassign"
      BY <1>1, <2>2, ReassignDoes, Current DEF ReassignIPAddress
    <3> QED
      BY <3>1 DEF OthersStay, Justified, Doing
  <2>3. CASE DeleteIPAddress
    <3>1. i \in Held /\ Justified(pos) /\ works[pos].op = "delete"
          /\ recs' = [recs EXCEPT ![i] = Deleted]
      BY <1>1, <2>3, Current DEF DeleteIPAddress
    <3>2. OthersStay(i)
      BY <1>1, <3>1, DeleteDoes
    <3> QED
      BY <3>1, <3>2 DEF OthersStay, Justified, Doing
  <2>4. CASE AssignIPAddress \/ ModifyIPAddress
    BY <2>4 DEF AssignIPAddress, ModifyIPAddress, Doing
  <2>5. CASE recs' = recs
    BY <2>5
  <2> QED
    BY <1>1, <2>1, <2>2, <2>3, <2>4, <2>5 DEF Next, vars, Prepare, PlanLine, LineFails, LineDone,
       Finish, Stop, SomeoneMoves, SomeoneDeletes, SomeoneAdds
<1> QED
  BY <1>1, Invariance, PTL DEF Spec, TakesOnlyByForce

-----------------------------------------------------------------------------
\* How far the NetBox is from what the line wants, while nobody else writes.

Left(op, r) == \E k \in pos .. Len(works) : works[k].op = op /\ works[k].id = r
Assigning == \E k \in pos .. Len(works) : works[k].op = "assign"

GoesHere(v, r) == Same(recs[r].on, Iface(v)) \/ Left("reassign", r)

NoneElsewhere(v) == \A r \in Found(v) : GoesHere(v, r)
NoneWrong(v) == \A r \in Found(v) : ~Wrong(r) \/ Left("modify", r) \/ Left("reassign", r)
SomeHere(v) == Assigning \/ \E r \in Found(v) : GoesHere(v, r)
NothingElse(v) ==
    cmd.single /\ CanBeNamed(Iface(v)) =>
        \A r \in Held : recs[r].on = Iface(v) => recs[r].addr = v.ip \/ Left("delete", r)
FirstRecord(v) == Assigning => Found(v) = {}
DeletesHere(v) ==
    \A r \in Held : Left("delete", r) => recs[r].on = <<"dcim", Iface(v)[2]>>

Heading(v) ==
    /\ NoneElsewhere(v)
    /\ NoneWrong(v)
    /\ SomeHere(v)
    /\ NothingElse(v)
    /\ FirstRecord(v)
    /\ DeletesHere(v)

Ahead == edits = 0 /\ pc = "do" => Heading(Line)

LEMMA PlanHeads ==
    ASSUME Typed, PlanLine
    PROVE  Heading(Line)'
<1>1. /\ line <= Len(cmd.lines) /\ Verdict(Line) = "fine" /\ works' \in Plans(Line)
      /\ pos' = 1 /\ UNCHANGED <<recs, cmd, line>>
  BY DEF PlanLine
<1>2. /\ Iface(Line) \in Interfaces /\ Elsewhere(Line) = Taken(Line)
  BY <1>1, Verdicts
<1>3. works' \in Seq(Items(Line)) /\ Elements(works') = Items(Line)
  BY <1>1, PlanElements
<1>4. ASSUME NEW op, NEW r
      PROVE  Left(op, r)' <=> \E w \in Items(Line) : w.op = op /\ w.id = r
  <2>1. DOMAIN works' = pos' .. Len(works')
    BY <1>1, <1>3
  <2> QED
    BY <1>3, <2>1 DEF Left, Elements
<1>5. ASSUME NEW r
      PROVE  /\ r \in Taken(Line) => Left("reassign", r)'
             /\ r \in Fixed(Line) => Left("modify", r)'
             /\ r \in Dropped(Line) <=> Left("delete", r)'
  <2>1. /\ r \in Taken(Line) => Work("reassign", r, Line) \in Items(Line)
        /\ r \in Fixed(Line) => Work("modify", r, Line) \in Items(Line)
        /\ r \in Dropped(Line) => Work("delete", r, Line) \in Items(Line)
    BY DEF Items
  <2>2. ASSUME NEW w \in Items(Line), w.op = "delete", w.id = r
        PROVE  r \in Dropped(Line)
    BY <2>2 DEF Items, Work
  <2>3. \A op : Work(op, r, Line).op = op /\ Work(op, r, Line).id = r
    BY DEF Work
  <2> QED
    BY <1>4, <2>1, <2>2, <2>3
<1>6. Assigning' <=> Kept(Line) = {}
  <2>1. DOMAIN works' = pos' .. Len(works')
    BY <1>1, <1>3
  <2>2. Assigning' <=> \E w \in Items(Line) : w.op = "assign"
    BY <1>3, <2>1 DEF Assigning, Elements
  <2>3. Kept(Line) = {} => Work("assign", None, Line) \in Items(Line)
    BY DEF Items
  <2>4. ASSUME NEW w \in Items(Line), w.op = "assign"
        PROVE  Kept(Line) = {}
    BY <2>4 DEF Items, Work
  <2>5. Work("assign", None, Line).op = "assign"
    BY DEF Work
  <2> QED
    BY <2>2, <2>3, <2>4, <2>5
<1>7. /\ Line' = Line /\ Held' = Held /\ Iface(Line)' = Iface(Line) /\ Found(Line)' = Found(Line)
      /\ \A r : Wrong(r)' = Wrong(r)
  BY <1>1 DEF Line, Held, Iface, Found, Wrong
<1>8. ASSUME NEW r \in Found(Line)
      PROVE  /\ r \in Kept(Line)
             /\ Same(recs[r].on, Iface(Line)) \/ r \in Taken(Line)
  BY <1>2 DEF Kept, Good, Elsewhere
<1>9. NoneElsewhere(Line)'
  BY <1>1, <1>5, <1>7, <1>8 DEF NoneElsewhere, GoesHere
<1>10. NoneWrong(Line)'
  BY <1>5, <1>7, <1>8 DEF NoneWrong, Fixed
<1>11. SomeHere(Line)'
  <2>1. CASE Kept(Line) = {}
    BY <1>6, <2>1 DEF SomeHere
  <2>2. CASE Kept(Line) # {}
    <3>1. PICK r : r \in Found(Line)
      BY <2>2 DEF Kept, Good, Taken, Elsewhere
    <3> QED
      BY <1>1, <1>5, <1>7, <1>8, <3>1 DEF SomeHere, GoesHere
  <2> QED
    BY <2>1, <2>2
<1>12. NothingElse(Line)'
  <2> SUFFICES ASSUME cmd.single, CanBeNamed(Iface(Line)), NEW r \in Held,
                      recs[r].on = Iface(Line), recs[r].addr # Line.ip
               PROVE  r \in Dropped(Line)
    BY <1>1, <1>5, <1>7 DEF NothingElse
  <2>1. Iface(Line) = <<"dcim", Iface(Line)[2]>>
    BY <1>2, PlacesAssumption DEF CanBeNamed
  <2> QED
    BY <2>1 DEF Dropped, MyOther, OnIface, Good, Found
<1>13. FirstRecord(Line)'
  BY <1>6, <1>7, <1>8 DEF FirstRecord
<1>14. DeletesHere(Line)'
  BY <1>1, <1>5, <1>7 DEF DeletesHere, Dropped, MyOther, OnIface
<1> QED
  BY <1>9, <1>10, <1>11, <1>12, <1>13, <1>14 DEF Heading

\* One work less.
LEMMA LeftStays ==
    ASSUME Typed, pos' = pos + 1, works' = works, NEW op, NEW r
    PROVE  /\ Left(op, r)' => Left(op, r)
           /\ Left(op, r) => Left(op, r)' \/ (works[pos].op = op /\ works[pos].id = r)
           /\ Assigning' => Assigning
           /\ Assigning => Assigning' \/ works[pos].op = "assign"
<1>1. pos \in Nat /\ Len(works) \in Nat
  BY DEF Typed, TypeOK
<1>2. \A k \in pos' .. Len(works') : k \in pos .. Len(works)
  BY <1>1
<1>3. \A k \in pos .. Len(works) : k = pos \/ k \in pos' .. Len(works')
  BY <1>1
<1>4. Left(op, r)' => Left(op, r)
  BY <1>2 DEF Left
<1>5. ASSUME Left(op, r), ~(works[pos].op = op /\ works[pos].id = r)
      PROVE  Left(op, r)'
  <2>1. PICK k \in pos .. Len(works) : works[k].op = op /\ works[k].id = r
    BY <1>5 DEF Left
  <2>2. k \in pos' .. Len(works')
    BY <1>3, <1>5, <2>1
  <2> QED
    BY <2>1, <2>2 DEF Left
<1>6. Assigning' => Assigning
  BY <1>2 DEF Assigning
<1>7. Assigning => Assigning' \/ works[pos].op = "assign"
  BY <1>3 DEF Assigning
<1> QED
  BY <1>4, <1>5, <1>6, <1>7

LEMMA WriteAdvances ==
    ASSUME ReassignIPAddress \/ DeleteIPAddress \/ AssignIPAddress \/ ModifyIPAddress
    PROVE  /\ pc = "do" /\ pos <= Len(works) /\ pos' = pos + 1
           /\ works' = works /\ cmd' = cmd /\ line' = line /\ pc' = pc
           /\ edits' = edits /\ done' = done /\ Line' = Line
BY DEF ReassignIPAddress, DeleteIPAddress, AssignIPAddress, ModifyIPAddress, Doing, Advance, Line

\* What a record changes into, or is, after a write that concerns another one.
LEMMA OtherRecords ==
    ASSUME Typed, NEW i, OthersStay(i), NEW r \in Ids \ {i}
    PROVE  /\ r \in Held' <=> r \in Held
           /\ recs'[r] = recs[r]
           /\ \A v : r \in Found(v)' <=> r \in Found(v)
BY DEF OthersStay, Held, Found

LEMMA ReassignHeads ==
    ASSUME Typed, PlanOK, Heading(Line), ReassignIPAddress
    PROVE  Heading(Line)'
<1> DEFINE i == works[pos].id
           v == Line
<1>1. /\ i \in Held /\ Moved(i) \in Record /\ recs'[i] = Moved(i) /\ OthersStay(i)
      /\ recs' \in Table
  BY ReassignDoes
<1>2. /\ pos' = pos + 1 /\ works' = works /\ cmd' = cmd /\ v' = v /\ Iface(v)' = Iface(v)
  BY WriteAdvances DEF Iface
<1>3. /\ works[pos].op = "reassign" /\ recs[i].addr = v.ip /\ Iface(v) \in Interfaces
      /\ Left("reassign", i)
  <2>1. works[pos].op = "reassign" /\ Justified(pos) /\ Iface(v) \in Interfaces
        /\ pos \in pos .. Len(works)
    BY Current DEF ReassignIPAddress, Doing, Typed, TypeOK
  <2> QED
    BY <1>1, <2>1 DEF Justified, Left
<1>4. /\ i \in Held' /\ i \in Found(v)' /\ i \in Found(v)
      /\ recs'[i].on = Iface(v) /\ recs'[i].addr = v.ip
      /\ recs'[i].status = cmd.status /\ recs'[i].vrf = cmd.vrf
  BY <1>1, <1>2, <1>3, HeldAreRecords, SituationsAssumption DEF Moved, Found, Held
<1>5. ASSUME NEW r \in Ids, r # i
      PROVE  /\ r \in Held' <=> r \in Held
             /\ r \in Found(v)' <=> r \in Found(v)
             /\ recs'[r] = recs[r]
             /\ \A op : Left(op, r)' <=> Left(op, r)
  BY <1>1, <1>2, <1>5, OtherRecords, LeftStays
<1>6. Held' \subseteq Ids /\ Found(v)' \subseteq Ids /\ Found(v) \subseteq Ids
  BY DEF Held, Found
<1>7. Same(recs'[i].on, Iface(v))
  BY <1>3, <1>4 DEF Same
<1>8. NoneElsewhere(v)'
  BY <1>2, <1>4, <1>5, <1>6, <1>7 DEF Heading, NoneElsewhere, GoesHere
<1>9. NoneWrong(v)'
  BY <1>2, <1>4, <1>5, <1>6 DEF Heading, NoneWrong, Wrong
<1>10. SomeHere(v)'
  BY <1>2, <1>4, <1>7 DEF SomeHere, GoesHere
<1>11. NothingElse(v)'
  BY <1>2, <1>4, <1>5, <1>6 DEF Heading, NothingElse
<1>12. FirstRecord(v)'
  BY <1>2, <1>4, LeftStays DEF Heading, FirstRecord
<1>13. DeletesHere(v)'
  <2>1. ASSUME NEW r, Left("delete", r)
        PROVE  r # i
    <3>1. PICK k \in pos .. Len(works) : works[k].op = "delete" /\ works[k].id = r
      BY <2>1 DEF Left
    <3>2. k \in DOMAIN works /\ pc = "do"
      BY <3>1, WriteAdvances DEF Typed, TypeOK
    <3>3. Justified(k)
      BY <3>2 DEF PlanOK
    <3> QED
      BY <1>1, <1>3, <3>1, <3>3 DEF Justified
  <2>2. ASSUME NEW r \in Ids, r \in Held', Left("delete", r)'
        PROVE  recs'[r].on = <<"dcim", Iface(v)[2]>>
    <3>1. Left("delete", r)
      BY <1>2, <2>2, LeftStays
    <3>2. r # i
      BY <2>1, <3>1
    <3>3. r \in Held /\ recs'[r] = recs[r]
      BY <1>5, <2>2, <3>2
    <3> QED
      BY <3>1, <3>3 DEF Heading, DeletesHere
  <2> QED
    BY <1>2, <1>6, <2>2 DEF DeletesHere
<1> QED
  BY <1>8, <1>9, <1>10, <1>11, <1>12, <1>13 DEF Heading

LEMMA ModifyHeads ==
    ASSUME Typed, PlanOK, Heading(Line), ModifyIPAddress
    PROVE  Heading(Line)'
<1> DEFINE i == works[pos].id
           v == Line
<1>1. /\ i \in Held /\ Modified(i) \in Record /\ recs'[i] = Modified(i) /\ OthersStay(i)
  BY ModifyDoes
<1>2. /\ pos' = pos + 1 /\ works' = works /\ cmd' = cmd /\ v' = v /\ Iface(v)' = Iface(v)
  BY WriteAdvances DEF Iface
<1>3. works[pos].op = "modify"
  BY DEF ModifyIPAddress, Doing
<1>4. /\ i \in Ids /\ i \in Held'
      /\ recs'[i].on = recs[i].on /\ recs'[i].addr = recs[i].addr
      /\ recs'[i].status = cmd.status /\ recs'[i].vrf = cmd.vrf
  BY <1>1, HeldAreRecords, SituationsAssumption DEF Modified, Held
<1>5. ASSUME NEW r \in Ids
      PROVE  /\ r \in Held' <=> r \in Held
             /\ r \in Found(v)' <=> r \in Found(v)
             /\ r \in Held => recs'[r].on = recs[r].on /\ recs'[r].addr = recs[r].addr
             /\ Left("reassign", r)' <=> Left("reassign", r)
             /\ Left("delete", r)' <=> Left("delete", r)
             /\ r # i => (Left("modify", r)' <=> Left("modify", r)) /\ recs'[r] = recs[r]
  <2>1. /\ Left("reassign", r)' <=> Left("reassign", r)
        /\ Left("delete", r)' <=> Left("delete", r)
        /\ r # i => (Left("modify", r)' <=> Left("modify", r))
    BY <1>2, <1>3, LeftStays
  <2>2. CASE r = i
    BY <1>1, <1>2, <1>4, <2>1, <2>2 DEF Found
  <2>3. CASE r # i
    BY <1>1, <1>2, <2>1, <2>3, OtherRecords
  <2> QED
    BY <2>2, <2>3
<1>6. Held' \subseteq Ids /\ Found(v)' \subseteq Ids /\ Found(v) \subseteq Held
      /\ Found(v)' \subseteq Held' /\ Held \subseteq Ids
  BY DEF Held, Found
<1>7. Assigning' <=> Assigning
  BY <1>2, <1>3, LeftStays
<1>8. NoneElsewhere(v)'
  BY <1>2, <1>5, <1>6 DEF Heading, NoneElsewhere, GoesHere
<1>9. NoneWrong(v)'
  BY <1>2, <1>4, <1>5, <1>6 DEF Heading, NoneWrong, Wrong
<1>10. SomeHere(v)'
  BY <1>2, <1>5, <1>6, <1>7 DEF Heading, SomeHere, GoesHere
<1>11. NothingElse(v)'
  BY <1>2, <1>5, <1>6 DEF Heading, NothingElse
<1>12. FirstRecord(v)'
  BY <1>2, <1>5, <1>6, <1>7 DEF Heading, FirstRecord
<1>13. DeletesHere(v)'
  BY <1>2, <1>5, <1>6 DEF Heading, DeletesHere
<1> QED
  BY <1>8, <1>9, <1>10, <1>11, <1>12, <1>13 DEF Heading

LEMMA DeleteHeads ==
    ASSUME Typed, PlanOK, Heading(Line), DeleteIPAddress
    PROVE  Heading(Line)'
<1> DEFINE i == works[pos].id
           v == Line
<1>1. /\ i \in Held /\ recs'[i] = Deleted /\ OthersStay(i)
  BY DeleteDoes DEF DeleteIPAddress
<1>2. /\ pos' = pos + 1 /\ works' = works /\ cmd' = cmd /\ v' = v /\ Iface(v)' = Iface(v)
  BY WriteAdvances DEF Iface
<1>3. works[pos].op = "delete" /\ recs[i].addr # v.ip
  BY <1>1, Current DEF DeleteIPAddress, Justified
<1>4. i \notin Held' /\ i \notin Found(v)' /\ i \notin Found(v)
  BY <1>1, <1>3 DEF Held, Found
<1>5. ASSUME NEW r \in Ids, r # i
      PROVE  /\ r \in Held' <=> r \in Held
             /\ r \in Found(v)' <=> r \in Found(v)
             /\ recs'[r] = recs[r]
             /\ \A op : Left(op, r)' <=> Left(op, r)
  BY <1>1, <1>2, <1>5, OtherRecords, LeftStays
<1>6. Held' \subseteq Ids /\ Found(v)' \subseteq Ids /\ Found(v) \subseteq Ids
  BY DEF Held, Found
<1>7. Assigning' <=> Assigning
  BY <1>2, <1>3, LeftStays
<1>8. NoneElsewhere(v)'
  BY <1>2, <1>4, <1>5, <1>6 DEF Heading, NoneElsewhere, GoesHere
<1>9. NoneWrong(v)'
  BY <1>2, <1>4, <1>5, <1>6 DEF Heading, NoneWrong, Wrong
<1>10. SomeHere(v)'
  BY <1>2, <1>4, <1>5, <1>6, <1>7 DEF Heading, SomeHere, GoesHere
<1>11. NothingElse(v)'
  BY <1>2, <1>4, <1>5, <1>6 DEF Heading, NothingElse
<1>12. FirstRecord(v)'
  BY <1>2, <1>4, <1>5, <1>6, <1>7 DEF Heading, FirstRecord
<1>13. DeletesHere(v)'
  BY <1>2, <1>4, <1>5, <1>6 DEF Heading, DeletesHere
<1> QED
  BY <1>8, <1>9, <1>10, <1>11, <1>12, <1>13 DEF Heading

\* There was no record of the address, and this is the only one that is added.
LEMMA AssignDoes ==
    ASSUME Typed, PlanOK, AssignIPAddress
    PROVE  \E i \in Ids : /\ recs[i] = None
                          /\ recs' \in Table /\ recs'[i] = Added /\ OthersStay(i)
<1>1. /\ Doing("assign")
      /\ Add([addr |-> works[pos].ip, on |-> works[pos].to, vrf |-> cmd.vrf,
              status |-> cmd.status, anycast |-> FALSE])
  BY DEF AssignIPAddress
<1>2. /\ works[pos].ip = Line.ip /\ works[pos].to = Iface(Line)
      /\ Line.ip \in Addrs /\ Iface(Line) \in Interfaces
      /\ cmd.vrf \in VRFs /\ cmd.status \in Statuses
  BY <1>1, Current DEF Justified
<1>3. Added \in Record /\ Add(Added)
  BY <1>1, <1>2 DEF Added, Record
<1> QED
  BY <1>3, AddDoes

LEMMA AssignHeads ==
    ASSUME Typed, PlanOK, Heading(Line), AssignIPAddress
    PROVE  Heading(Line)'
<1> DEFINE v == Line
<1>1. PICK i \in Ids : /\ recs[i] = None
                       /\ recs'[i] = Added /\ OthersStay(i)
  BY AssignDoes
<1>2. /\ pos' = pos + 1 /\ works' = works /\ cmd' = cmd /\ v' = v /\ Iface(v)' = Iface(v)
  BY WriteAdvances DEF Iface
<1>3. /\ pos \in DOMAIN works /\ works[pos].op = "assign"
      /\ Iface(v) \in Interfaces /\ cmd.vrf \in VRFs /\ cmd.status \in Statuses
      /\ v.ip \in Addrs /\ pc = "do"
  BY Current DEF AssignIPAddress
<1>4. /\ i \notin Held /\ i \in Held' /\ i \in Found(v)'
      /\ recs'[i].on = Iface(v) /\ recs'[i].addr = v.ip
      /\ recs'[i].status = cmd.status /\ recs'[i].vrf = cmd.vrf
  <2>1. Added \in Record
    BY <1>3 DEF Added, Record
  <2> QED
    BY <1>1, <1>2, <2>1, SituationsAssumption DEF Added, Held, Found
<1>5. ASSUME NEW r \in Ids
      PROVE  /\ Left("reassign", r)' <=> Left("reassign", r)
             /\ Left("modify", r)' <=> Left("modify", r)
             /\ Left("delete", r)' <=> Left("delete", r)
             /\ r # i => /\ r \in Held' <=> r \in Held
                         /\ r \in Found(v)' <=> r \in Found(v)
                         /\ recs'[r] = recs[r]
  <2>1. /\ Left("reassign", r)' <=> Left("reassign", r)
        /\ Left("modify", r)' <=> Left("modify", r)
        /\ Left("delete", r)' <=> Left("delete", r)
    BY <1>2, <1>3, LeftStays
  <2> QED
    BY <1>1, <1>2, <2>1, OtherRecords
<1>6. Held' \subseteq Ids /\ Found(v)' \subseteq Held' /\ Held \subseteq Ids
  BY DEF Held, Found
<1>7. ~Assigning'
  <2> SUFFICES ASSUME NEW k \in pos' .. Len(works'), works'[k].op = "assign"
               PROVE  FALSE
    BY DEF Assigning
  <2>1. k \in DOMAIN works /\ k # pos /\ works[k].op = "assign"
    BY <1>2, <1>3 DEF Typed, TypeOK
  <2>2. OneAssign(works)
    BY <1>3 DEF PlanOK
  <2> QED
    BY <1>3, <2>1, <2>2 DEF OneAssign
<1>8. ASSUME NEW r, Left("delete", r)
      PROVE  r # i
  <2>1. PICK k \in pos .. Len(works) : works[k].op = "delete" /\ works[k].id = r
    BY <1>8 DEF Left
  <2>2. k \in DOMAIN works
    BY <2>1 DEF Typed, TypeOK
  <2>3. Justified(k)
    BY <1>3, <2>2 DEF PlanOK
  <2> QED
    BY <1>1, <2>1, <2>3 DEF Justified
<1>9. Same(recs'[i].on, Iface(v))
  BY <1>3, <1>4 DEF Same
<1>10. NoneElsewhere(v)'
  <2> SUFFICES ASSUME NEW r \in Found(v)'
               PROVE  Same(recs'[r].on, Iface(v)) \/ Left("reassign", r)'
    BY <1>2 DEF NoneElsewhere, GoesHere
  <2> QED
    BY <1>2, <1>5, <1>6, <1>9 DEF Heading, NoneElsewhere, GoesHere
<1>11. NoneWrong(v)'
  BY <1>2, <1>4, <1>5, <1>6 DEF Heading, NoneWrong, Wrong
<1>12. SomeHere(v)'
  BY <1>2, <1>4, <1>9 DEF SomeHere, GoesHere
<1>13. NothingElse(v)'
  BY <1>2, <1>4, <1>5, <1>6 DEF Heading, NothingElse
<1>14. FirstRecord(v)'
  BY <1>7 DEF FirstRecord
<1>15. DeletesHere(v)'
  <2>1. ASSUME NEW r \in Ids, r \in Held', Left("delete", r)'
        PROVE  recs'[r].on = <<"dcim", Iface(v)[2]>>
    <3>1. Left("delete", r) /\ r # i
      BY <1>5, <1>8, <2>1
    <3> QED
      BY <1>5, <2>1, <3>1 DEF Heading, DeletesHere
  <2> QED
    BY <1>2, <1>6, <2>1 DEF DeletesHere
<1> QED
  BY <1>10, <1>11, <1>12, <1>13, <1>14, <1>15 DEF Heading

LEMMA NextAhead == Typed /\ PlanOK /\ Ahead /\ [Next]_vars => Ahead'
<1> SUFFICES ASSUME Typed, PlanOK, Ahead, [Next]_vars, edits' = 0, pc' = "do"
             PROVE  Heading(Line)'
  BY DEF Ahead
<1>1. ~Others
  BY DEF Others, Typed, TypeOK, IsCommand
<1>2. CASE PlanLine
  BY <1>2, PlanHeads
<1>3. CASE ~PlanLine
  <2>1. edits = 0 /\ pc = "do" /\ Heading(Line)
    <3>1. ~LineFails
      BY Verdicts DEF LineFails
    <3> QED
      BY <1>1, <1>3, <3>1 DEF Ahead, Next, vars, Prepare, LineDone, Finish, Stop,
         ReassignIPAddress, DeleteIPAddress, AssignIPAddress, ModifyIPAddress, Doing, Advance,
         SomeoneMoves, SomeoneDeletes, SomeoneAdds
  <2>2. CASE ReassignIPAddress \/ DeleteIPAddress \/ AssignIPAddress \/ ModifyIPAddress
    BY <2>1, <2>2, ReassignHeads, DeleteHeads, AssignHeads, ModifyHeads
  <2>3. CASE UNCHANGED vars
    BY <2>1, <2>3 DEF vars, Heading, Line, NoneElsewhere, NoneWrong, SomeHere, NothingElse,
       FirstRecord, DeletesHere, GoesHere, Left, Assigning, Found, Held, Iface, Wrong, Same
  <2> QED
    BY <1>1, <1>3, <2>1, <2>2, <2>3 DEF Next, Prepare, LineFails, LineDone, Finish, Stop,
       SomeoneMoves, SomeoneDeletes, SomeoneAdds
<1> QED
  BY <1>2, <1>3

LEMMA AheadHolds == Spec => [](Typed /\ PlanOK /\ Ahead)
<1>1. Init => Ahead
  BY DEF Init, Ahead
<1> QED
  BY <1>1, Invariance, NextAhead, PTL DEF Spec

-----------------------------------------------------------------------------
\* No second record.

LEMMA NoneIsAdded ==
    ASSUME Typed, PlanOK, Ahead, [Next]_vars, edits' = 0,
           NEW addr \in Addrs, Records(addr) # {}
    PROVE  Records(addr)' \subseteq Records(addr)
<1> SUFFICES ASSUME NEW r \in Ids, r \in Held', recs'[r].addr = addr, recs[r] = None
             PROVE  FALSE
  BY StepRecordsStay DEF RecordsStay, Records, Held
<1>1. ~Others
  BY DEF Others, Typed, TypeOK, IsCommand
<1>2. CASE AssignIPAddress
  <2>1. PICK i \in Ids : recs'[i] = Added /\ OthersStay(i)
    BY <1>2, AssignDoes
  <2>2. r = i
    BY <2>1 DEF OthersStay, Held
  <2>3. Line.ip = addr
    BY <2>1, <2>2 DEF Added
  <2>4. Assigning /\ pc = "do" /\ edits = 0
    <3>1. pos \in DOMAIN works /\ works[pos].op = "assign" /\ pc = "do"
      BY <1>2, Current DEF AssignIPAddress
    <3>2. pos \in pos .. Len(works)
      BY <3>1 DEF Typed, TypeOK
    <3> QED
      BY <1>2, <3>1, <3>2, WriteAdvances DEF Assigning
  <2>5. Found(Line) = {}
    BY <2>4 DEF Ahead, Heading, FirstRecord
  <2> QED
    BY <2>3, <2>5 DEF Records, Found
<1>3. CASE ReassignIPAddress \/ DeleteIPAddress \/ ModifyIPAddress
  <2> DEFINE i == works[pos].id
  <2>1. i \in Held /\ OthersStay(i)
    BY <1>3, ReassignDoes, ModifyDoes, DeleteDoes DEF DeleteIPAddress
  <2> QED
    BY <2>1 DEF OthersStay, Held
<1>4. CASE recs' = recs
  BY <1>4 DEF Held
<1> QED
  BY <1>1, <1>2, <1>3, <1>4 DEF Next, vars, Prepare, PlanLine, LineFails, LineDone, Finish, Stop,
     SomeoneMoves, SomeoneDeletes, SomeoneAdds

\* plan_one() looks an address up before it adds a record for it, and the plan adds
\* one at most: however the lines follow each other, and wherever the run stops, an
\* address that has a record never gets another one from this run.
THEOREM AddressesKeepToOneRecord == Spec => NoSecondRecord
<1> DEFINE A == edits' = 0 =>
              \A addr \in Addrs : Records(addr) # {} =>
                  Cardinality(Records(addr)') <= Cardinality(Records(addr))
<1>1. ASSUME Typed, PlanOK, Ahead, [Next]_vars
      PROVE  [A]_vars
  <2> SUFFICES ASSUME edits' = 0, NEW addr \in Addrs, Records(addr) # {}
               PROVE  Cardinality(Records(addr)') <= Cardinality(Records(addr))
    BY DEF vars
  <2>1. Records(addr)' \subseteq Records(addr)
    BY <1>1, NoneIsAdded
  <2>2. IsFiniteSet(Records(addr))
    <3>1. Records(addr) \subseteq Ids
      BY DEF Records, Held
    <3> QED
      BY <3>1, PlacesAssumption, FS_Subset
  <2> QED
    BY <2>1, <2>2, FS_Subset
<1> QED
  BY <1>1, AheadHolds, PTL DEF Spec, NoSecondRecord

-----------------------------------------------------------------------------
\* What a line has come to.  pynetbox takes a VM's interface for a device's with
\* the same id, and what follows is not true of such a pair.
IdsDiffer == \A x, y \in Interfaces : x[2] = y[2] => x = y

LEMMA LineEndsSet ==
    ASSUME IdsDiffer, Typed, PlanOK, Heading(Line), pc = "do", pos > Len(works)
    PROVE  IsSet(Line)
<1> DEFINE v == Line
<1>1. pos .. Len(works) = {}
  BY DEF Typed, TypeOK
<1>2. ~Assigning /\ \A op, r : ~Left(op, r)
  BY <1>1 DEF Assigning, Left
<1>3. \A r \in Found(v) : Same(recs[r].on, Iface(v)) /\ ~Wrong(r)
  BY <1>2 DEF Heading, NoneElsewhere, NoneWrong, GoesHere
<1>4. \E r \in Found(v) : recs[r].on = Iface(v)
  <2>1. PICK r \in Found(v) : Same(recs[r].on, Iface(v))
    BY <1>2 DEF Heading, SomeHere, GoesHere
  <2> QED
    BY <2>1 DEF IdsDiffer, Same
<1>5. cmd.single /\ CanBeNamed(Iface(v)) =>
          \A r \in Held : recs[r].on = Iface(v) => recs[r].addr = v.ip
  BY <1>2 DEF Heading, NothingElse
<1> QED
  BY <1>3, <1>4, <1>5 DEF IsSet, Wrong

\* A write for a line leaves the lines alone that share neither interface nor
\* address with it.
LEMMA IsSetStays ==
    ASSUME IdsDiffer, Typed, PlanOK, Heading(Line),
           ReassignIPAddress \/ DeleteIPAddress \/ AssignIPAddress \/ ModifyIPAddress,
           NEW v, IsSet(v), Iface(v) \in Interfaces,
           Iface(v) # Iface(Line), v.ip # Line.ip
    PROVE  IsSet(v)'
<1>1. cmd' = cmd /\ Iface(v)' = Iface(v) /\ pc = "do" /\ Iface(Line) \in Interfaces
  BY WriteAdvances DEF Iface, PlanOK
<1>2. ASSUME NEW i \in Ids, OthersStay(i), i \notin Found(v), i \notin Found(v)',
             i \in Held' /\ recs'[i].on = Iface(v) =>
                 i \in Held /\ recs[i].on = recs'[i].on /\ recs[i].addr = recs'[i].addr
      PROVE  IsSet(v)'
  <2>1. Found(v)' = Found(v) /\ \A r \in Found(v) : r # i /\ recs'[r] = recs[r]
    <3>1. Found(v) \subseteq Ids \ {i} /\ Found(v)' \subseteq Ids \ {i}
      BY <1>2 DEF Found, Held
    <3> QED
      BY <1>2, <3>1, OtherRecords DEF OthersStay
  <2>2. ASSUME NEW r \in Held', recs'[r].on = Iface(v)
        PROVE  r \in Held /\ recs[r].on = recs'[r].on /\ recs[r].addr = recs'[r].addr
    <3>1. r \in Ids
      BY <2>2 DEF Held
    <3> QED
      BY <1>2, <2>2, <3>1, OtherRecords
  <2> QED
    BY <1>1, <2>1, <2>2 DEF IsSet
<1>3. CASE ReassignIPAddress
  <2> DEFINE i == works[pos].id
  <2>1. /\ i \in Held /\ i \in Ids /\ OthersStay(i)
        /\ recs'[i].on = Iface(Line) /\ recs'[i].addr = Line.ip /\ recs[i].addr = Line.ip
    <3>1. Justified(pos) /\ works[pos].op = "reassign"
      BY <1>3, Current DEF ReassignIPAddress
    <3>2. i \in Held /\ recs'[i] = Moved(i) /\ OthersStay(i)
      BY <1>3, ReassignDoes
    <3> QED
      BY <3>1, <3>2 DEF Justified, Moved, Held
  <2> QED
    BY <1>2, <2>1 DEF Found
<1>4. CASE DeleteIPAddress
  <2> DEFINE i == works[pos].id
  <2>1. /\ i \in Held /\ i \in Ids /\ recs'[i] = Deleted /\ OthersStay(i)
    BY <1>4, DeleteDoes DEF DeleteIPAddress, Held
  <2>2. recs[i].on = <<"dcim", Iface(Line)[2]>>
    <3>1. pos \in pos .. Len(works) /\ works[pos].op = "delete"
      BY <1>4, Current DEF DeleteIPAddress, Typed, TypeOK
    <3>2. Left("delete", i)
      BY <3>1 DEF Left
    <3> QED
      BY <2>1, <3>2 DEF Heading, DeletesHere
  <2>3. i \notin Found(v)
    <3> SUFFICES ASSUME i \in Found(v)
                 PROVE  FALSE
      OBVIOUS
    <3>1. recs[i].on \in Interfaces /\ recs[i].on[2] = Iface(v)[2]
      BY DEF IsSet, Same
    <3>2. Iface(Line)[2] = Iface(v)[2]
      BY <2>2, <3>1
    <3> QED
      BY <1>1, <3>2 DEF IdsDiffer
  <2>4. i \notin Held' /\ i \notin Found(v)'
    BY <2>1 DEF Held, Found
  <2> QED
    BY <1>2, <2>1, <2>3, <2>4
<1>5. CASE AssignIPAddress
  <2>1. PICK i \in Ids : recs[i] = None /\ recs'[i] = Added /\ OthersStay(i)
    BY <1>5, AssignDoes
  <2> QED
    BY <1>2, <2>1 DEF Added, Found, Held
<1>6. CASE ModifyIPAddress
  <2> DEFINE i == works[pos].id
  <2>1. /\ i \in Held /\ i \in Ids /\ OthersStay(i)
        /\ recs'[i].on = recs[i].on /\ recs'[i].addr = Line.ip /\ recs[i].addr = Line.ip
    <3>1. Justified(pos) /\ works[pos].op = "modify"
      BY <1>6, Current DEF ModifyIPAddress
    <3>2. i \in Held /\ recs'[i] = Modified(i) /\ OthersStay(i)
      BY <1>6, ModifyDoes
    <3> QED
      BY <3>1, <3>2 DEF Justified, Modified, Held
  <2>2. i \notin Found(v) /\ i \notin Found(v)'
    BY <2>1 DEF Found
  <2> QED
    BY <1>2, <2>1, <2>2
<1> QED
  BY <1>3, <1>4, <1>5, <1>6

LEMMA SameLine ==
    ASSUME UNCHANGED <<recs, cmd>>, NEW v
    PROVE  IsSet(v)' <=> IsSet(v)
BY DEF IsSet, Found, Held, Iface, Same, CanBeNamed

DoneOK ==
    edits = 0 =>
        \A k \in done :
            /\ Iface(cmd.lines[k]) \in Interfaces
            /\ ~Overtaken(k) => IsSet(cmd.lines[k])
LastOK ==
    edits = 0 /\ pc \in {"prepare", "next"} /\ (line - 1) \in done =>
        IsSet(cmd.lines[line - 1])

LEMMA NextLines ==
    ASSUME IdsDiffer
    PROVE  Typed /\ PlanOK /\ Ahead /\ DoneOK /\ LastOK /\ [Next]_vars => (DoneOK /\ LastOK)'
<1> SUFFICES ASSUME Typed, PlanOK, Ahead, DoneOK, LastOK, [Next]_vars, edits' = 0
             PROVE  (DoneOK /\ LastOK)'
  BY DEF DoneOK, LastOK
<1>1. ~Others
  BY DEF Others, Typed, TypeOK, IsCommand
<1>2. line \in Nat \ {0} /\ done \subseteq 1 .. (line - 1)
  BY DEF Typed, TypeOK
<1>3. ASSUME UNCHANGED <<recs, cmd>>, edits = 0, line' \in {line, line + 1}, done' = done
      PROVE  DoneOK'
  <2> SUFFICES ASSUME NEW k \in done
               PROVE  /\ Iface(cmd.lines[k])' \in Interfaces
                      /\ ~Overtaken(k)' => IsSet(cmd.lines[k])'
    BY <1>3 DEF DoneOK
  <2>1. Overtaken(k) => Overtaken(k)'
    BY <1>2, <1>3 DEF Overtaken, Iface
  <2> QED
    BY <1>3, <2>1, SameLine DEF DoneOK, Iface
<1>4. CASE LineDone
  <2>1. /\ pc = "do" /\ pos > Len(works) /\ line' = line + 1 /\ done' = done \cup {line}
        /\ UNCHANGED <<recs, cmd>> /\ edits = 0
    BY <1>4 DEF LineDone
  <2>2. IsSet(cmd.lines[line]) /\ Iface(cmd.lines[line]) \in Interfaces
    BY <2>1, LineEndsSet DEF Ahead, PlanOK, Line
  <2>3. ASSUME NEW k \in done'
        PROVE  /\ Iface(cmd.lines[k])' \in Interfaces
               /\ ~Overtaken(k)' => IsSet(cmd.lines[k])'
    <3>1. CASE k = line
      BY <2>1, <2>2, <3>1, SameLine DEF Iface
    <3>2. CASE k \in done
      <4>1. Overtaken(k) => Overtaken(k)'
        BY <1>2, <2>1 DEF Overtaken, Iface
      <4> QED
        BY <2>1, <3>2, <4>1, SameLine DEF DoneOK, Iface
    <3> QED
      BY <2>1, <3>1, <3>2
  <2>4. line' - 1 = line
    BY <1>2, <2>1
  <2> QED
    BY <2>1, <2>2, <2>3, <2>4, SameLine DEF DoneOK, LastOK
<1>5. CASE ReassignIPAddress \/ DeleteIPAddress \/ AssignIPAddress \/ ModifyIPAddress
  <2>1. /\ pc = "do" /\ pc' = "do" /\ edits = 0 /\ UNCHANGED <<cmd, line, done>>
        /\ line <= Len(cmd.lines) /\ Heading(Line)
    BY <1>5, WriteAdvances DEF PlanOK, Ahead
  <2>2. ASSUME NEW k \in done
        PROVE  /\ Iface(cmd.lines[k])' \in Interfaces
               /\ ~Overtaken(k)' => IsSet(cmd.lines[k])'
    <3>1. PICK v : v = cmd.lines[k]
      OBVIOUS
    <3>2. Iface(v) \in Interfaces /\ (~Overtaken(k) => IsSet(v)) /\ v = cmd'.lines[k]
      BY <2>1, <2>2, <3>1 DEF DoneOK
    <3>3. ~Overtaken(k) => Iface(v) # Iface(Line) /\ v.ip # Line.ip
      BY <1>2, <2>1, <2>2, <3>1 DEF Overtaken, Line
    <3>4. Overtaken(k)' <=> Overtaken(k)
      BY <2>1 DEF Overtaken, Iface
    <3>5. ~Overtaken(k) => IsSet(v)'
      BY <1>5, <2>1, <3>2, <3>3, IsSetStays
    <3> QED
      BY <3>1, <3>2, <3>4, <3>5, <2>1 DEF Iface
  <2> QED
    BY <2>1, <2>2 DEF DoneOK, LastOK
<1>6. CASE Prepare \/ PlanLine \/ LineFails \/ Finish \/ Stop \/ UNCHANGED vars
  <2>1. UNCHANGED <<recs, cmd>> /\ edits = 0 /\ line' \in {line, line + 1} /\ done' = done
    BY <1>6 DEF Prepare, PlanLine, LineFails, Finish, Stop, vars
  <2>2. \/ UNCHANGED line /\ (pc' \in {"prepare", "next"} => pc \in {"prepare", "next"})
        \/ line' = line + 1
    BY <1>6 DEF Prepare, PlanLine, LineFails, Finish, Stop, vars
  <2>3. line' = line + 1 => (line' - 1) \notin done'
    BY <1>2, <2>1
  <2>4. pc' \in {"prepare", "next"} => \/ line' = line + 1
                                       \/ line' = line /\ pc \in {"prepare", "next"}
    BY <2>2
  <2> QED
    BY <1>3, <2>1, <2>3, <2>4, SameLine DEF LastOK
<1> QED
  BY <1>1, <1>4, <1>5, <1>6 DEF Next, SomeoneMoves, SomeoneDeletes, SomeoneAdds

LEMMA LinesHold ==
    ASSUME IdsDiffer
    PROVE  Spec => [](Typed /\ DoneOK /\ LastOK)
<1>1. Init => DoneOK /\ LastOK
  BY DEF Init, DoneOK, LastOK
<1>2. Typed /\ PlanOK /\ Ahead /\ DoneOK /\ LastOK /\ [Next]_vars => (DoneOK /\ LastOK)'
  BY NextLines
<1> QED
  BY <1>1, <1>2, AheadHolds, PTL DEF Spec

\* Where no two interfaces share an id, and nobody else writes: a line that was done
\* stays set until a later one names its interface or its address, for any number of
\* lines and wherever the run fails or stops.
THEOREM LinesOnceDoneStand ==
    ASSUME IdsDiffer
    PROVE  Spec => []LinesStand
<1>1. DoneOK => LinesStand
  BY DEF DoneOK, LinesStand
<1> QED
  BY <1>1, LinesHold, PTL

\* What is set needs nothing.
LEMMA SetNeedsNothing ==
    ASSUME IdsDiffer, Typed, NEW v, Iface(v) \in Interfaces, IsSet(v)
    PROVE  Verdict(v) = "fine" /\ Plans(v) = {<< >>}
<1>1. Elsewhere(v) = {} /\ Taken(v) = {} /\ Good(v) = Found(v)
  BY DEF IsSet, Elsewhere, Taken, Good
<1>2. Kept(v) # {} /\ Fixed(v) = {}
  BY <1>1 DEF IsSet, Kept, Fixed, Wrong
<1>3. Dropped(v) = {}
  <2> SUFFICES ASSUME cmd.single, NEW r \in Held, recs[r].on = <<"dcim", Iface(v)[2]>>
               PROVE  r \in Found(v)
    BY <1>1 DEF Dropped, MyOther, OnIface
  <2>1. recs[r].on \in Interfaces
    <3>1. recs[r].on \in Interfaces \cup {Nothing}
      BY HeldAreRecords DEF Record
    <3>2. <<"dcim", Iface(v)[2]>> \in {"dcim", "vm"} \X Nat
      BY PlacesAssumption
    <3> QED
      BY <3>1, <3>2, PlacesAssumption
  <2>2. recs[r].on = Iface(v)
    BY <2>1 DEF IdsDiffer
  <2> QED
    BY <2>1, <2>2 DEF IsSet, CanBeNamed, Found
<1>4. Verdict(v) = "fine"
  <2>1. ~Anycast(v)
    BY <1>1, FS_EmptySet DEF Anycast
  <2>2. ~Unnameable(v)
    BY <1>1, <1>2 DEF Unnameable
  <2> QED
    BY <1>1, <2>1, <2>2, PlacesAssumption DEF Verdict
<1>5. SetToSeqs({}) = {<< >>}
  <2>1. Cardinality({}) = 0 /\ 1 .. 0 = {}
    BY FS_EmptySet
  <2>2. [1 .. 0 -> {}] = {<< >>}
    <3>1. << >> \in Seq({}) /\ Len(<< >>) = 0
      OBVIOUS
    <3>2. << >> \in [1 .. 0 -> {}]
      BY <3>1
    <3>3. ASSUME NEW f \in [1 .. 0 -> {}]
          PROVE  f = << >>
      BY <2>1, <3>2, <3>3
    <3> QED
      BY <3>2, <3>3
  <2> QED
    BY <2>1, <2>2 DEF SetToSeqs
<1>6. Orders(v) = {<< << >>, << >>, << >> >>}
  BY <1>1, <1>2, <1>3, <1>5 DEF Orders
<1>7. InOrder(<< << >>, << >>, << >> >>, v) = << >>
  BY <1>2 DEF InOrder, Each
<1> QED
  BY <1>4, <1>6, <1>7 DEF Plans

\* Where no two interfaces share an id, and nobody else writes: the line that was
\* just done, given again, is planned as no write at all.
THEOREM TheSameLineAgainIsFree ==
    ASSUME IdsDiffer
    PROVE  Spec => []SecondTimeDoesNothing
<1>1. Typed /\ DoneOK /\ LastOK => SecondTimeDoesNothing
  BY SetNeedsNothing DEF DoneOK, LastOK, SecondTimeDoesNothing
<1> QED
  BY <1>1, LinesHold, PTL
=============================================================================
