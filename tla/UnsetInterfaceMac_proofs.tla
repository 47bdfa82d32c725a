---------------------- MODULE UnsetInterfaceMac_proofs ----------------------
(***************************************************************************)
(* Proofs about UnsetInterfaceMac, for any MACs, interfaces and records,   *)
(* any number of lines and any changes by others.  A work rests on what    *)
(* was asked for and on where its record has been; what was asked for and  *)
(* has not been done is in a line, or in a work.                           *)
(***************************************************************************)
EXTENDS UnsetInterfaceMac, FiniteSetTheorems, WellFoundedInduction, TLAPS

Line == [target : Targets, mac : Macs]

\* What was asked for of a record, at a place it has been on.
MayGo(r) == r \in DOMAIN first => \E place \in been[r] : Asked(first[r].mac, place)

Typed ==
    /\ IsCommand(cmd)
    /\ pc \in {"lint", "ready", "doing", "failed", "refused", "done"}
    /\ DOMAIN recs \subseteq Ids /\ recs \in [DOMAIN recs -> Record]
    /\ lines \in Seq(Line)
    /\ works \subseteq (Nat \ {0}) \X Ids
    /\ edits \in Nat
    /\ DOMAIN first \subseteq Ids /\ first \in [DOMAIN first -> Record]
    /\ been \in [Ids -> SUBSET Places]
    /\ deleted \subseteq Ids

\* been is where the records have been, and ids are not given out again.
Followed ==
    /\ \A r \in DOMAIN recs : recs[r].on \in been[r]
    /\ \A r \in DOMAIN first \cap DOMAIN recs : recs[r].mac = first[r].mac

\* Where the run is says what there is.
Stages ==
    /\ pc = "lint" => cmd.pipe
    /\ pc \in {"lint", "ready"} => works = {}
    /\ pc = "done" => works = {} /\ lines = << >>

AskedOnly ==
    /\ \A k \in DOMAIN lines : Asked(lines[k].mac, lines[k].target)
    /\ \A w \in works : MayGo(w[2])
    /\ \A r \in deleted : MayGo(r)

\* A record of the first that has not moved from a place where it is asked for.
Awaits(r, place) ==
    /\ r \in DOMAIN first \cap DOMAIN recs
    /\ been[r] = {place}
    /\ Asked(first[r].mac, place)

Pending ==
    ~cmd.pipe /\ pc \notin {"failed", "refused"} =>
        \A r \in Ids : \A place \in Places :
            Awaits(r, place) =>
                \/ \E k \in DOMAIN lines : lines[k] = [target |-> place, mac |-> first[r].mac]
                \/ \E w \in works : w[2] = r

IInv == Typed /\ Followed /\ Stages /\ AskedOnly /\ Pending

-----------------------------------------------------------------------------
\* The lint.

\* SetToSeq() lists each element of a finite set once.
LEMMA SetToSeqLists ==
    ASSUME NEW S, IsFiniteSet(S)
    PROVE  /\ SetToSeq(S) \in [1 .. Cardinality(S) -> S] /\ Cardinality(S) \in Nat
           /\ IsInjective(SetToSeq(S))
           /\ \A v \in S : \E i \in DOMAIN SetToSeq(S) : SetToSeq(S)[i] = v
<1> DEFINE list == SetToSeq(S)
<1>1. Cardinality(S) \in Nat /\ ExistsBijection(1 .. Cardinality(S), S)
  BY FS_CardinalityType
<1>2. \E f \in [1 .. Cardinality(S) -> S] : IsInjective(f)
  BY <1>1 DEF ExistsBijection, Bijection, Injection
<1>3. list \in [1 .. Cardinality(S) -> S] /\ IsInjective(list)
  BY <1>2 DEF SetToSeq
<1>4. list \in Injection(1 .. Cardinality(S), S)
  BY <1>3 DEF Injection
<1>5. IsFiniteSet(1 .. Cardinality(S)) /\ Cardinality(1 .. Cardinality(S)) = Cardinality(S)
  BY <1>1, FS_Interval
<1>6. list \in Surjection(1 .. Cardinality(S), S)
  BY <1>4, <1>5, FS_Injection
<1> QED
  BY <1>1, <1>3, <1>6 DEF Surjection

Loners == [target : {Unassigned}, mac : Findings(recs, TRUE, FALSE)]

LEMMA PrintedLists ==
    /\ IsFiniteSet(Loners)
    /\ Loners \subseteq Line
    /\ Printed = SetToSeq(Loners)
<1> DEFINE F == Findings(recs, TRUE, FALSE)
           g == [mac \in F |-> [target |-> Unassigned, mac |-> mac]]
<1>1. F \subseteq Macs
  BY DEF Findings, Duplicates
<1>2. IsFiniteSet(F)
  BY <1>1, SituationsAssumption, FS_Subset
<1>3. g \in Surjection(F, Loners)
  <2>1. ASSUME NEW line \in Loners
        PROVE  line.mac \in F /\ line = [target |-> Unassigned, mac |-> line.mac]
    BY DEF Loners
  <2>2. \A mac \in F : [target |-> Unassigned, mac |-> mac] \in Loners
    BY DEF Loners
  <2> QED
    BY <2>1, <2>2 DEF Surjection
<1> QED
  BY <1>1, <1>2, <1>3, FS_Surjection DEF Loners, Line, Targets, Printed

LEMMA PrintedIsAsked ==
    ASSUME cmd.pipe
    PROVE  /\ Printed \in Seq(Line)
           /\ \A k \in DOMAIN Printed : Asked(Printed[k].mac, Printed[k].target)
<1>1. Printed \in [1 .. Cardinality(Loners) -> Loners] /\ Cardinality(Loners) \in Nat
  BY PrintedLists, SetToSeqLists
<1>2. Printed \in Seq(Line)
  BY <1>1, PrintedLists
<1>3. \A line \in Loners : line.target = Unassigned /\ line.mac \notin NOT_REAL_MACS
  BY DEF Loners, Findings, Duplicates
<1> QED
  BY <1>1, <1>2, <1>3 DEF Asked

-----------------------------------------------------------------------------
\* Planning.

\* _sits_on() knows an interface by its id, since only those of devices are asked for.
LEMMA SitsOnIsThere ==
    ASSUME NEW record \in Record, NEW target \in Targets, target # Unknown
    PROVE  SitsOn(record, target) <=> record.on = target
<1>1. CASE target = Unassigned
  BY <1>1 DEF SitsOn
<1>2. CASE target # Unassigned
  <2>1. target \in Interfaces /\ target.table = "dcim"
    BY <1>2 DEF Targets
  <2>2. record.on \in Interfaces \cup {Unassigned}
    BY DEF Record, Places
  <2> QED
    BY <1>2, <2>1, <2>2, MacsAssumption DEF SitsOn
<1> QED
  BY <1>1, <1>2

LEMMA PlannedIsAsked ==
    ASSUME Typed, Followed, NEW line \in Line, ~PlanFails(line),
           Asked(line.mac, line.target)
    PROVE  Planned(line) \subseteq Ids /\ \A r \in Planned(line) : MayGo(r)
<1>1. ASSUME NEW r \in Planned(line)
      PROVE  r \in DOMAIN recs /\ recs[r].mac = line.mac /\ recs[r].on = line.target
  <2>1. r \in DOMAIN recs /\ recs[r].mac = line.mac /\ SitsOn(recs[r], line.target)
    BY DEF Planned, Copies
  <2> QED
    BY <2>1, SitsOnIsThere DEF Typed, Line, PlanFails
<1>2. ASSUME NEW r \in Planned(line)
      PROVE  r \in Ids /\ MayGo(r)
  BY <1>1 DEF Typed, Followed, MayGo
<1> QED
  BY <1>2

\* What is awaited of a line is planned for it, and a line that is awaited does not fail.
LEMMA AwaitedIsPlanned ==
    ASSUME Typed, Followed, NEW line \in Line, NEW r \in Ids, NEW place \in Places,
           Awaits(r, place), line = [target |-> place, mac |-> first[r].mac]
    PROVE  ~PlanFails(line) /\ r \in Planned(line)
<1>1. r \in DOMAIN recs /\ recs[r] \in Record /\ recs[r].mac = line.mac /\ recs[r].on = line.target
  BY DEF Typed, Followed, Awaits
<1>2. line.target \in Targets /\ line.target # Unknown
  BY SituationsAssumption DEF Line
<1>3. r \in Copies(recs, line.mac)
  BY <1>1 DEF Copies
<1> QED
  BY <1>1, <1>2, <1>3, SitsOnIsThere DEF Planned, PlanFails

-----------------------------------------------------------------------------
\* The invariant.

LEMMA InitHolds == Init => IInv
<1> SUFFICES ASSUME Init PROVE IInv
  OBVIOUS
<1>1. PICK situation \in Situations : recs = situation.recs /\ cmd = situation.cmd
  BY DEF Init
<1>2. /\ DOMAIN recs \subseteq Ids /\ recs \in [DOMAIN recs -> Record]
      /\ IsCommand(cmd)
  BY <1>1, SituationsAssumption
<1>3. \A r \in DOMAIN recs : recs[r].on \in Places
  BY <1>2 DEF Record
<1>4. Typed
  BY <1>2, <1>3 DEF Init, Typed, IsCommand, Line
<1>5. Followed
  BY <1>2 DEF Init, Followed
<1>6. Stages
  BY DEF Init, Stages
<1>7. \A k \in DOMAIN lines : lines[k] \in Line
  BY <1>4 DEF Typed
<1>8. AskedOnly
  <2>1. CASE cmd.pipe
    <3>1. lines = << >>
      BY <1>2, <2>1 DEF Init, IsCommand
    <3> QED
      BY <3>1 DEF Init, AskedOnly
  <2>2. CASE ~cmd.pipe
    <3>1. \A k \in DOMAIN lines :
              cmd.lines[k] = [target |-> lines[k].target, mac |-> lines[k].mac]
      BY <1>7 DEF Init, Line
    <3> QED
      BY <2>2, <3>1 DEF Init, AskedOnly, Asked
  <2> QED
    BY <2>1, <2>2
<1>9. Pending
  BY DEF Init, Pending, Awaits, Asked
<1> QED
  BY <1>4, <1>5, <1>6, <1>8, <1>9 DEF IInv

\* Nothing that is awaited is awaited anew.
LEMMA PendingStays ==
    ASSUME Pending, UNCHANGED <<cmd, lines, works, first>>, pc' \notin {"failed", "refused"},
           pc \notin {"failed", "refused"},
           \A r \in Ids : \A place \in Places : Awaits(r, place)' => Awaits(r, place)
    PROVE  Pending'
BY DEF Pending

LEMMA MayGoStays ==
    ASSUME UNCHANGED <<cmd, first>>,
           \A r \in DOMAIN first : been[r] \subseteq been'[r]
    PROVE  /\ \A mac, place : Asked(mac, place)' <=> Asked(mac, place)
           /\ \A r : MayGo(r) => MayGo(r)'
<1>1. \A mac, place : Asked(mac, place)' <=> Asked(mac, place)
  BY DEF Asked
<1> QED
  BY <1>1 DEF MayGo

LEMMA LintHolds == ASSUME IInv, Lint PROVE IInv'
<1>1. cmd.pipe
  BY DEF IInv, Stages, Lint
<1>2. Printed \in Seq(Line) /\ \A k \in DOMAIN Printed : Asked(Printed[k].mac, Printed[k].target)
  BY <1>1, PrintedIsAsked
<1>3. Typed' /\ Followed' /\ Stages'
  BY <1>2 DEF IInv, Lint, Typed, Followed, Stages
<1>4. AskedOnly'
  <2>1. \A mac, place : Asked(mac, place)' <=> Asked(mac, place)
    BY DEF Lint, Asked
  <2>2. \A r : MayGo(r) => MayGo(r)'
    BY MayGoStays DEF Lint
  <2> QED
    BY <1>2, <2>1, <2>2 DEF IInv, Lint, AskedOnly
<1>5. Pending'
  BY <1>1 DEF Lint, Pending
<1> QED
  BY <1>3, <1>4, <1>5 DEF IInv

LEMMA PlanAllHolds == ASSUME IInv, PlanAll PROVE IInv'
<1>1. CASE pc' = "failed"
  <2>1. UNCHANGED <<lines, works>>
    BY <1>1 DEF PlanAll
  <2> QED
    BY <1>1, <2>1 DEF IInv, PlanAll, Typed, Followed, Stages, AskedOnly, Asked, MayGo, Pending
<1>2. CASE pc' # "failed"
  <2>1. /\ pc' = "doing" /\ lines' = << >>
        /\ \A k \in DOMAIN lines : ~PlanFails(lines[k])
        /\ works' = UNION {{k} \X Planned(lines[k]) : k \in DOMAIN lines}
        /\ UNCHANGED <<recs, cmd, edits, first, been, deleted>>
    BY <1>2 DEF PlanAll
  <2>2. \A k \in DOMAIN lines : lines[k] \in Line /\ k \in Nat \ {0}
    BY DEF IInv, Typed
  <2>3. \A w \in works' : \E k \in DOMAIN lines : w[1] = k /\ w[2] \in Planned(lines[k])
    BY <2>1
  <2>4. \A k \in DOMAIN lines : /\ Planned(lines[k]) \subseteq Ids
                                /\ \A r \in Planned(lines[k]) : MayGo(r)
    BY <2>1, <2>2, PlannedIsAsked DEF IInv, AskedOnly
  <2>5. works' \subseteq (Nat \ {0}) \X Ids
    BY <2>1, <2>2, <2>4
  <2>6. Typed' /\ Followed' /\ Stages'
    BY <2>1, <2>5 DEF IInv, Typed, Followed, Stages
  <2>7. AskedOnly'
    <3>1. \A r : MayGo(r) => MayGo(r)'
      BY <2>1, MayGoStays
    <3> QED
      BY <2>1, <2>3, <2>4, <3>1 DEF IInv, AskedOnly
  <2>8. Pending'
    <3>1. ASSUME ~cmd.pipe, NEW r \in Ids, NEW place \in Places, Awaits(r, place)
          PROVE  \E w \in works' : w[2] = r
      <4>1. PICK k \in DOMAIN lines : lines[k] = [target |-> place, mac |-> first[r].mac]
        BY <3>1 DEF IInv, Pending, Stages, PlanAll
      <4>2. r \in Planned(lines[k])
        BY <2>2, <3>1, <4>1, AwaitedIsPlanned DEF IInv
      <4>3. <<k, r>> \in works'
        BY <2>1, <4>2
      <4> QED
        BY <4>3
    <3> QED
      BY <2>1, <3>1 DEF Pending, Awaits, Asked
  <2> QED
    BY <2>6, <2>7, <2>8 DEF IInv
<1> QED
  BY <1>1, <1>2

\* A line that is skipped, with --keep-going, leaves nothing behind.
LEMMA PlanNextHolds == ASSUME IInv, PlanNext PROVE IInv'
<1> DEFINE head == Head(lines)
<1>1. /\ UNCHANGED <<recs, cmd, edits, first, been, deleted>>
      /\ pc = "ready" /\ works = {} /\ lines # << >> /\ lines \in Seq(Line)
  BY DEF PlanNext, IInv, Stages, Typed
<1>2. /\ head \in Line /\ head = lines[1] /\ 1 \in DOMAIN lines
      /\ Tail(lines) \in Seq(Line)
      /\ \A k \in DOMAIN Tail(lines) : k + 1 \in DOMAIN lines /\ Tail(lines)[k] = lines[k + 1]
      /\ \A k \in DOMAIN lines : k # 1 => k - 1 \in DOMAIN Tail(lines) /\ Tail(lines)[k - 1] = lines[k]
  BY <1>1
<1>3. CASE pc' = "failed"
  <2>1. UNCHANGED <<lines, works>>
    BY <1>3 DEF PlanNext
  <2> QED
    BY <1>1, <1>3, <2>1 DEF IInv, Typed, Followed, Stages, AskedOnly, Asked, MayGo, Pending
<1>4. CASE pc' # "failed"
  <2>1. /\ lines' = Tail(lines)
        /\ \/ ~PlanFails(head) /\ pc' = "doing" /\ works' = {1} \X Planned(head)
           \/ PlanFails(head) /\ pc' = "ready" /\ works' = {}
    BY <1>1, <1>4 DEF PlanNext
  <2>2. /\ works' \subseteq (Nat \ {0}) \X Ids
        /\ \A w \in works' : MayGo(w[2])
    <3>1. CASE PlanFails(head)
      BY <2>1, <3>1
    <3>2. CASE ~PlanFails(head)
      <4>1. Planned(head) \subseteq Ids /\ \A r \in Planned(head) : MayGo(r)
        BY <1>2, <3>2, PlannedIsAsked DEF IInv, AskedOnly
      <4> QED
        BY <2>1, <3>2, <4>1
    <3> QED
      BY <3>1, <3>2
  <2>3. Typed' /\ Followed' /\ Stages'
    BY <1>1, <1>2, <2>1, <2>2 DEF IInv, Typed, Followed, Stages
  <2>4. AskedOnly'
    <3>1. \A k \in DOMAIN lines' : Asked(lines'[k].mac, lines'[k].target)
      BY <1>2, <2>1 DEF IInv, AskedOnly
    <3>2. \A mac, place : Asked(mac, place)' <=> Asked(mac, place)
      BY <1>1, MayGoStays
    <3>3. \A r : MayGo(r) => MayGo(r)'
      BY <1>1, MayGoStays
    <3> QED
      BY <1>1, <2>2, <3>1, <3>2, <3>3 DEF IInv, AskedOnly
  <2>5. Pending'
    <3>1. ASSUME ~cmd.pipe, NEW r \in Ids, NEW place \in Places, Awaits(r, place)
          PROVE  \/ \E k \in DOMAIN lines' : lines'[k] = [target |-> place, mac |-> first[r].mac]
                 \/ \E w \in works' : w[2] = r
      <4>1. PICK k \in DOMAIN lines : lines[k] = [target |-> place, mac |-> first[r].mac]
        BY <1>1, <3>1 DEF IInv, Pending
      <4>2. CASE k = 1
        <5>1. ~PlanFails(head) /\ r \in Planned(head)
          BY <1>2, <3>1, <4>1, <4>2, AwaitedIsPlanned DEF IInv
        <5>2. <<1, r>> \in works'
          BY <2>1, <5>1
        <5> QED
          BY <5>2
      <4>3. CASE k # 1
        <5>1. k - 1 \in DOMAIN lines' /\ lines'[k - 1] = lines[k]
          BY <1>2, <2>1, <4>3
        <5> QED
          BY <4>1, <5>1
      <4> QED
        BY <4>2, <4>3
    <3> QED
      BY <1>1, <3>1 DEF Pending, Awaits, Asked
  <2> QED
    BY <2>3, <2>4, <2>5 DEF IInv
<1> QED
  BY <1>3, <1>4

LEMMA DeleteHolds == ASSUME IInv, NEW w \in works, Delete(w) PROVE IInv'
<1>1. /\ w[2] \in DOMAIN recs /\ pc = "doing"
      /\ recs' = [r \in DOMAIN recs \ {w[2]} |-> recs[r]]
      /\ works' = works \ {w} /\ deleted' = deleted \cup {w[2]}
      /\ UNCHANGED <<cmd, pc, lines, edits, first, been>>
  BY DEF Delete, IsNext
<1>2. DOMAIN recs' = DOMAIN recs \ {w[2]} /\ \A r \in DOMAIN recs' : recs'[r] = recs[r]
  BY <1>1
<1>3. Typed'
  BY <1>1, <1>2 DEF IInv, Typed
<1>4. Followed' /\ Stages'
  BY <1>1, <1>2 DEF IInv, Followed, Stages
<1>5. AskedOnly'
  <2>1. /\ \A mac, place : Asked(mac, place)' <=> Asked(mac, place)
        /\ \A s : MayGo(s) => MayGo(s)'
    BY <1>1, MayGoStays
  <2> QED
    BY <1>1, <2>1 DEF IInv, AskedOnly, Delete
<1>6. Pending'
  <2>1. \A r \in Ids : \A place \in Places : Awaits(r, place)' => Awaits(r, place) /\ r # w[2]
    BY <1>1, <1>2 DEF Awaits, Asked
  <2> QED
    BY <1>1, <2>1 DEF IInv, Pending
<1> QED
  BY <1>3, <1>4, <1>5, <1>6 DEF IInv

LEMMA RunEndsHolds ==
    ASSUME IInv, LineDone \/ Finish \/ \E w \in works : Refused(w)
    PROVE  IInv'
<1>1. /\ UNCHANGED <<recs, cmd, lines, works, edits, first, been, deleted>>
      /\ \/ pc' = "ready" /\ works = {} /\ pc = "doing"
         \/ pc' = "done" /\ works = {} /\ lines = << >> /\ pc \in {"ready", "doing"}
         \/ pc' = "refused"
  BY DEF LineDone, Finish, Refused
<1>2. Typed' /\ Followed' /\ Stages'
  BY <1>1 DEF IInv, Typed, Followed, Stages
<1>3. AskedOnly'
  <2>1. /\ \A mac, place : Asked(mac, place)' <=> Asked(mac, place)
        /\ \A s : MayGo(s) => MayGo(s)'
    BY <1>1, MayGoStays
  <2> QED
    BY <1>1, <2>1 DEF IInv, AskedOnly, Delete
<1>4. Pending'
  <2>1. \A r \in Ids : \A place \in Places : Awaits(r, place)' => Awaits(r, place)
    BY <1>1 DEF Awaits, Asked
  <2> QED
    BY <1>1, <2>1 DEF IInv, Pending
<1> QED
  BY <1>2, <1>3, <1>4 DEF IInv

LEMMA MovesHolds ==
    ASSUME IInv, NEW r \in Ids, NEW place \in Places, SomeoneMoves(r, place)
    PROVE  IInv'
<1>1. /\ r \in DOMAIN recs /\ recs[r].on # place /\ pc \in {"lint", "ready", "doing"}
      /\ recs' = [recs EXCEPT ![r].on = place]
      /\ been' = [been EXCEPT ![r] = @ \cup {place}]
      /\ edits' = edits + 1
      /\ UNCHANGED <<cmd, pc, lines, works, first, deleted>>
  BY DEF SomeoneMoves, Busy
<1>2. /\ DOMAIN recs' = DOMAIN recs
      /\ recs'[r] = [recs[r] EXCEPT !.on = place] /\ recs[r] \in Record
      /\ \A s \in DOMAIN recs : s # r => recs'[s] = recs[s]
      /\ been'[r] = been[r] \cup {place} /\ \A s \in Ids : s # r => been'[s] = been[s]
  BY <1>1 DEF IInv, Typed
<1>3. recs'[r] = [mac |-> recs[r].mac, on |-> place]
  BY <1>2 DEF Record
<1>4. Typed'
  <2>1. recs' \in [DOMAIN recs -> Record]
    BY <1>1, <1>2, <1>3 DEF IInv, Typed, Record
  <2> QED
    BY <1>1, <1>2, <2>1 DEF IInv, Typed
<1>5. Followed' /\ Stages'
  <2>1. recs'[r].on = place /\ recs'[r].mac = recs[r].mac
    BY <1>3
  <2>2. Followed'
    BY <1>1, <1>2, <2>1 DEF IInv, Typed, Followed
  <2> QED
    BY <1>1, <2>2 DEF IInv, Stages
<1>6. AskedOnly'
  <2>1. \A s : MayGo(s) => MayGo(s)'
    BY <1>1, <1>2, MayGoStays DEF IInv, Typed
  <2> QED
    BY <1>1, <2>1 DEF IInv, AskedOnly, Asked
<1>7. Pending'
  \* It has been on two places now.
  <2>1. \A other \in Places : ~Awaits(r, other)'
    BY <1>1, <1>2 DEF IInv, Followed, Awaits
  <2>2. \A s \in Ids : \A other \in Places : Awaits(s, other)' => Awaits(s, other)
    BY <1>1, <1>2, <2>1 DEF Awaits, Asked
  <2> QED
    BY <1>1, <2>2, PendingStays DEF IInv
<1> QED
  BY <1>4, <1>5, <1>6, <1>7 DEF IInv

LEMMA AddsHolds ==
    ASSUME IInv, NEW r \in Ids, NEW record \in Record, SomeoneAdds(r, record)
    PROVE  IInv'
<1>1. /\ r \notin DOMAIN first /\ been[r] = {} /\ pc \in {"lint", "ready", "doing"}
      /\ recs' = [s \in DOMAIN recs \cup {r} |-> IF s = r THEN record ELSE recs[s]]
      /\ been' = [been EXCEPT ![r] = {record.on}]
      /\ edits' = edits + 1
      /\ UNCHANGED <<cmd, pc, lines, works, first, deleted>>
  BY DEF SomeoneAdds, Busy
<1>2. /\ r \notin DOMAIN recs
      /\ DOMAIN recs' = DOMAIN recs \cup {r}
      /\ recs'[r] = record /\ \A s \in DOMAIN recs : recs'[s] = recs[s]
      /\ been'[r] = {record.on} /\ \A s \in Ids : s # r => been'[s] = been[s]
  BY <1>1 DEF IInv, Typed, Followed
<1>3. Typed'
  <2>1. record.on \in Places
    BY DEF Record
  <2>2. been' \in [Ids -> SUBSET Places]
    BY <1>1, <2>1 DEF IInv, Typed
  <2>3. recs' \in [DOMAIN recs' -> Record]
    BY <1>1 DEF IInv, Typed
  <2> QED
    BY <1>1, <1>2, <2>2, <2>3 DEF IInv, Typed
<1>4. Followed' /\ Stages'
  BY <1>1, <1>2 DEF IInv, Typed, Followed, Stages
<1>5. AskedOnly'
  <2>1. \A s : MayGo(s) => MayGo(s)'
    BY <1>1, <1>2, MayGoStays DEF IInv, Typed
  <2> QED
    BY <1>1, <2>1 DEF IInv, AskedOnly, Asked
<1>6. Pending'
  <2>1. \A s \in Ids : \A place \in Places : Awaits(s, place)' => Awaits(s, place)
    BY <1>1, <1>2 DEF Awaits, Asked
  <2> QED
    BY <1>1, <2>1, PendingStays DEF IInv
<1> QED
  BY <1>3, <1>4, <1>5, <1>6 DEF IInv

LEMMA DeletesHolds ==
    ASSUME IInv, NEW r \in Ids, SomeoneDeletes(r)
    PROVE  IInv'
<1>1. /\ r \in DOMAIN recs /\ pc \in {"lint", "ready", "doing"}
      /\ recs' = [s \in DOMAIN recs \ {r} |-> recs[s]]
      /\ edits' = edits + 1
      /\ UNCHANGED <<cmd, pc, lines, works, first, been, deleted>>
  BY DEF SomeoneDeletes, Busy
<1>2. DOMAIN recs' = DOMAIN recs \ {r} /\ \A s \in DOMAIN recs' : recs'[s] = recs[s]
  BY <1>1
<1>3. Typed'
  BY <1>1, <1>2 DEF IInv, Typed
<1>4. Followed' /\ Stages'
  BY <1>1, <1>2 DEF IInv, Followed, Stages
<1>5. AskedOnly'
  <2>1. /\ \A mac, place : Asked(mac, place)' <=> Asked(mac, place)
        /\ \A s : MayGo(s) => MayGo(s)'
    BY <1>1, MayGoStays
  <2> QED
    BY <1>1, <2>1 DEF IInv, AskedOnly, Delete
<1>6. Pending'
  <2>1. \A s \in Ids : \A place \in Places : Awaits(s, place)' => Awaits(s, place)
    BY <1>1, <1>2 DEF Awaits, Asked
  <2> QED
    BY <1>1, <2>1, PendingStays DEF IInv
<1> QED
  BY <1>3, <1>4, <1>5, <1>6 DEF IInv

LEMMA StepHolds == IInv /\ [Next]_vars => IInv'
<1> SUFFICES ASSUME IInv, [Next]_vars PROVE IInv'
  OBVIOUS
<1>1. CASE UNCHANGED vars
  <2>1. /\ \A mac, place : Asked(mac, place)' <=> Asked(mac, place)
        /\ \A r : MayGo(r) => MayGo(r)'
    BY <1>1, MayGoStays DEF vars
  <2>2. Typed' /\ Followed' /\ Stages'
    BY <1>1 DEF vars, IInv, Typed, Followed, Stages
  <2>3. AskedOnly'
    BY <1>1, <2>1 DEF vars, IInv, AskedOnly
  <2>4. Pending'
    BY <1>1, <2>1 DEF vars, IInv, Pending, Awaits
  <2> QED
    BY <2>2, <2>3, <2>4 DEF IInv
<1>2. CASE Next
  BY <1>2, LintHolds, PlanAllHolds, PlanNextHolds, DeleteHolds, RunEndsHolds, MovesHolds,
     AddsHolds, DeletesHolds DEF Next
<1> QED
  BY <1>1, <1>2

LEMMA Holds == Spec => []IInv
BY InitHolds, StepHolds, PTL DEF Spec

\* "leaving the assigned copies alone": a record that was at no time where the
\* command looks is not deleted, while others move, add and delete records.
THEOREM AssignedAreLeftAlone == Spec => []OnlyWhatWasAsked
<1>1. IInv => OnlyWhatWasAsked
  BY DEF IInv, AskedOnly, MayGo, OnlyWhatWasAsked
<1> QED
  BY <1>1, Holds, PTL

\* A run that succeeds has deleted all that it was asked for and has not moved.
THEOREM NothingIsForgotten == Spec => []SuccessMeansGone
<1>1. ASSUME IInv PROVE SuccessMeansGone
  BY <1>1 DEF IInv, Typed, Stages, Pending, Awaits, SuccessMeansGone
<1> QED
  BY <1>1, Holds, PTL

-----------------------------------------------------------------------------
\* The lint.

\* Of interfaces there are, one has the lowest id.
LEMMA LowestId ==
    ASSUME NEW S, S # {}, S \subseteq Nat
    PROVE  Min(S) \in S /\ \A n \in S : Min(S) <= n
<1>1. PICK n \in S : \A m \in S : <<m, n>> \notin OpToRel(<, Nat)
  BY WFMin, NatLessThanWellFounded
<1>2. ASSUME NEW m \in S PROVE n <= m
  <2>1. m \in Nat /\ n \in Nat /\ <<m, n>> \in Nat \X Nat
    OBVIOUS
  <2>2. ~(m < n)
    BY <1>1, <2>1 DEF OpToRel
  <2> QED
    BY <2>1, <2>2
<1> QED
  BY <1>2 DEF Min

LEMMA IsExplainedRightly ==
    ASSUME NEW mac, IsExplained(recs, mac), NEW r \in Copies(recs, mac), NEW s \in Copies(recs, mac)
    PROVE  \/ recs[r].on # Unassigned /\ recs[r].on.named = mac
           \/ r # s => /\ recs[r].on # recs[s].on
                       /\ recs[r].on.machine = recs[s].on.machine
BY DEF IsExplained, IsSelfNamed, Assigned, Loose

LEMMA FoldedRightly ==
    ASSUME recs \in [DOMAIN recs -> Record],
           NEW mac, NEW r \in Assigned(recs, mac), r \notin Listed(recs, mac)
    PROVE  /\ recs[r].on.sub
           /\ \E s \in Listed(recs, mac) :
                  /\ recs[s].on.machine = recs[r].on.machine
                  /\ recs[s].on.base = recs[r].on.base
<1> DEFINE On(s) == recs[s].on
           Kin(s) == {On(t) : t \in {t \in Assigned(recs, mac) : Family(On(t)) = Family(On(s))}}
           Parents(s) == {i \in Kin(s) : i.machine # Nothing /\ ~i.sub}
           Candidates(s) == IF Parents(s) # {} THEN Parents(s) ELSE Kin(s)
           shown == ShownId(Kin(r))
<1>1. \A s \in Assigned(recs, mac) : On(s) \in Interfaces
  BY DEF Assigned, Copies, Loose, Record, Places
<1>2. Kin(r) \subseteq Interfaces /\ On(r) \in Kin(r)
  BY <1>1
<1>3. shown = Min({i.id : i \in Candidates(r)})
  BY DEF ShownId
<1>4. PICK shownOne \in Candidates(r) : shownOne.id = shown
  <2>1. {i.id : i \in Candidates(r)} # {} /\ {i.id : i \in Candidates(r)} \subseteq Nat
    BY <1>2, MacsAssumption
  <2>2. shown \in {i.id : i \in Candidates(r)}
    BY <1>3, <2>1, LowestId
  <2> QED
    BY <2>2
<1>5. PICK s \in Assigned(recs, mac) : On(s) = shownOne /\ Family(On(s)) = Family(On(r))
  BY <1>4
<1>6. Kin(s) = Kin(r)
  BY <1>5
<1>7. \A t \in Assigned(recs, mac) : t \in Listed(recs, mac) <=> On(t).id = ShownId(Kin(t))
  BY DEF Listed
<1>8. s \in Listed(recs, mac) /\ On(r).id # shown
  BY <1>4, <1>5, <1>6, <1>7
<1>9. /\ On(r).machine # Nothing
      /\ On(s).machine = On(r).machine /\ On(s).base = On(r).base
  BY <1>4, <1>5, <1>8 DEF Family
<1>10. On(r).sub
  <2> SUFFICES ASSUME ~On(r).sub PROVE FALSE
    OBVIOUS
  <2>1. On(r) \in Parents(r)
    BY <1>2, <1>9
  <2>2. shownOne \in Parents(r)
    BY <1>4, <2>1
  <2>3. shownOne = On(r)
    BY <1>2, <1>5, <1>9, <2>1, <2>2, MacsAssumption
  <2> QED
    BY <1>4, <1>8, <2>3
<1> QED
  BY <1>8, <1>9, <1>10

\* What duplicate-macs leaves out, without --all, is no mistake.
THEOREM LeftOutRightly == Spec => []NothingWrongIsExplained
<1>1. ASSUME Typed PROVE NothingWrongIsExplained
  BY <1>1, IsExplainedRightly, FoldedRightly DEF Typed, NothingWrongIsExplained
<1>2. IInv => NothingWrongIsExplained
  BY <1>1 DEF IInv
<1> QED
  BY <1>2, Holds, PTL

-----------------------------------------------------------------------------
\* The pipeline, when nobody else is at it.

\* The MACs that the lint prints.
Doubles == Findings(first, TRUE, FALSE)

\* Each line is about a MAC that no other line is about, and of which no record
\* has been deleted; a record that is to be deleted is in one of the two.
Clean ==
    /\ pc \notin {"failed", "refused"}
    /\ pc = "lint" => DOMAIN recs = DOMAIN first
    /\ DOMAIN recs \subseteq DOMAIN first /\ \A r \in DOMAIN recs : recs[r] = first[r]
    /\ \A r \in DOMAIN first \ DOMAIN recs : first[r].on = Unassigned
    /\ \A k \in DOMAIN lines :
           /\ lines[k].target = Unassigned /\ lines[k].mac \in Doubles
           /\ \A j \in DOMAIN lines : j # k => lines[j].mac # lines[k].mac
           /\ \A r \in DOMAIN first : first[r].mac = lines[k].mac => r \in DOMAIN recs
    /\ \A w \in works :
           /\ w[1] = 1 /\ w[2] \in DOMAIN recs /\ recs[w[2]].on = Unassigned
           /\ \A k \in DOMAIN lines : lines[k].mac # recs[w[2]].mac
    /\ pc # "lint" =>
           \A r \in DOMAIN recs :
               recs[r].on = Unassigned /\ recs[r].mac \in Doubles =>
                   \/ \E k \in DOMAIN lines : lines[k].mac = recs[r].mac
                   \/ <<1, r>> \in works

Alone == cmd.pipe /\ cmd.maxEdits = 0

CInv == IInv /\ (Alone => Clean)

LEMMA CopiesAreFinite ==
    ASSUME NEW nb, NEW mac, DOMAIN nb \subseteq Ids
    PROVE  IsFiniteSet(Copies(nb, mac)) /\ Cardinality(Copies(nb, mac)) \in Nat
<1>1. Copies(nb, mac) \subseteq Ids
  BY DEF Copies
<1> QED
  BY <1>1, SituationsAssumption, FS_Subset, FS_CardinalityType

\* A MAC that the lint prints has records.
LEMMA DoublesHaveCopies ==
    ASSUME Typed, NEW mac \in Doubles
    PROVE  \E r \in DOMAIN first : first[r].mac = mac
<1>1. Cardinality(Copies(first, mac)) >= 2
  BY DEF Doubles, Findings, Duplicates
<1>2. Copies(first, mac) # {}
  BY <1>1, FS_EmptySet
<1> QED
  BY <1>2 DEF Copies

LEMMA CleanInit == Init => (Alone => Clean)
<1> SUFFICES ASSUME Init, Alone PROVE Clean
  OBVIOUS
<1>1. IInv
  BY InitHolds
<1>2. lines = << >> /\ works = {} /\ pc = "lint" /\ recs = first
  BY <1>1 DEF Init, Alone, IInv, Typed, IsCommand
<1> QED
  BY <1>2 DEF Clean

LEMMA CleanLint == ASSUME IInv, Clean, Lint PROVE Clean'
<1>1. /\ pc' = "ready" /\ lines' = Printed /\ UNCHANGED <<recs, cmd, works, first>>
      /\ works = {} /\ recs = first
  <2>1. DOMAIN recs = DOMAIN first /\ \A r \in DOMAIN recs : recs[r] = first[r]
    BY DEF Clean, Lint
  <2> QED
    BY <2>1 DEF Lint, IInv, Typed, Stages
<1>2. /\ Printed \in [1 .. Cardinality(Loners) -> Loners] /\ IsInjective(Printed)
      /\ \A line \in Loners : \E i \in DOMAIN Printed : Printed[i] = line
  BY PrintedLists, SetToSeqLists
<1>3. ASSUME NEW line \in Loners
      PROVE  line = [target |-> Unassigned, mac |-> line.mac] /\ line.mac \in Doubles
  BY <1>1 DEF Loners, Doubles
<1>4. ASSUME NEW mac \in Doubles
      PROVE  \E k \in DOMAIN Printed : Printed[k].mac = mac
  <2>1. [target |-> Unassigned, mac |-> mac] \in Loners
    BY <1>1 DEF Loners, Doubles
  <2> QED
    BY <1>2, <2>1
<1>5. \A k \in DOMAIN Printed : /\ Printed[k].target = Unassigned
                                /\ Printed[k].mac \in Doubles
  BY <1>2, <1>3
<1>6. \A j, k \in DOMAIN Printed : j # k => Printed[j].mac # Printed[k].mac
  BY <1>2, <1>3 DEF IsInjective
<1>7. Doubles' = Doubles
  BY <1>1 DEF Doubles
<1> QED
  BY <1>1, <1>4, <1>5, <1>6, <1>7 DEF Clean

LEMMA CleanPlan == ASSUME IInv, Clean, PlanNext PROVE Clean'
<1> DEFINE head == Head(lines)
<1>1. /\ UNCHANGED <<recs, cmd, edits, first, been, deleted>> /\ Doubles' = Doubles
      /\ pc = "ready" /\ works = {} /\ lines # << >> /\ lines \in Seq(Line)
  BY DEF PlanNext, IInv, Stages, Typed, Doubles
<1>2. /\ head = lines[1] /\ 1 \in DOMAIN lines /\ head \in Line
      /\ \A k \in DOMAIN Tail(lines) : /\ k + 1 \in DOMAIN lines /\ k + 1 # 1
                                       /\ Tail(lines)[k] = lines[k + 1]
      /\ \A j, k \in DOMAIN Tail(lines) : j # k => j + 1 # k + 1
      /\ \A k \in DOMAIN lines : k # 1 => k - 1 \in DOMAIN Tail(lines) /\ Tail(lines)[k - 1] = lines[k]
  BY <1>1
<1>3. ~PlanFails(head)
  <2>1. head.mac \in Doubles /\ head.target = Unassigned
    BY <1>2 DEF Clean
  <2>2. PICK r \in DOMAIN first : first[r].mac = head.mac
    BY <2>1, DoublesHaveCopies DEF IInv
  <2>3. r \in Copies(recs, head.mac)
    BY <1>2, <2>2 DEF Clean, Copies
  <2> QED
    BY <2>1, <2>3, SituationsAssumption DEF PlanFails, Places
<1>4. pc' = "doing" /\ lines' = Tail(lines) /\ works' = {1} \X Planned(head)
  BY <1>3 DEF PlanNext
<1>5. \A r : <<1, r>> \in works' <=>
                 r \in DOMAIN recs /\ recs[r].mac = head.mac /\ recs[r].on = Unassigned
  BY <1>2, <1>4 DEF Planned, Copies, SitsOn, Clean
<1>6. \A k \in DOMAIN lines' :
          /\ lines'[k].target = Unassigned /\ lines'[k].mac \in Doubles
          /\ \A j \in DOMAIN lines' : j # k => lines'[j].mac # lines'[k].mac
          /\ \A r \in DOMAIN first : first[r].mac = lines'[k].mac => r \in DOMAIN recs
          /\ lines'[k].mac # head.mac
  BY <1>2, <1>4 DEF Clean
<1>7. \A w \in works' :
          /\ w[1] = 1 /\ w[2] \in DOMAIN recs /\ recs[w[2]].on = Unassigned
          /\ recs[w[2]].mac = head.mac
  BY <1>2, <1>4 DEF Planned, Copies, SitsOn, Clean
<1>8. ASSUME NEW r \in DOMAIN recs, recs[r].on = Unassigned, recs[r].mac \in Doubles
      PROVE  \/ \E k \in DOMAIN lines' : lines'[k].mac = recs[r].mac
             \/ <<1, r>> \in works'
  <2>1. PICK k \in DOMAIN lines : lines[k].mac = recs[r].mac
    BY <1>1, <1>8 DEF Clean
  <2>2. CASE k = 1
    BY <1>2, <1>5, <1>8, <2>1, <2>2
  <2>3. CASE k # 1
    <3>1. k - 1 \in DOMAIN lines' /\ lines'[k - 1] = lines[k]
      BY <1>2, <1>4, <2>3
    <3> QED
      BY <2>1, <3>1
  <2> QED
    BY <2>2, <2>3
<1> QED
  BY <1>1, <1>4, <1>6, <1>7, <1>8 DEF Clean

LEMMA CleanDelete == ASSUME IInv, Clean, NEW w \in works, Delete(w) PROVE Clean'
<1>1. /\ pc = "doing" /\ UNCHANGED <<cmd, pc, lines, first>> /\ Doubles' = Doubles
      /\ recs' = [r \in DOMAIN recs \ {w[2]} |-> recs[r]]
      /\ works' = works \ {w}
  BY DEF Delete, IsNext, Doubles
<1>2. DOMAIN recs' = DOMAIN recs \ {w[2]} /\ \A r \in DOMAIN recs' : recs'[r] = recs[r]
  BY <1>1
<1>3. /\ w[2] \in DOMAIN recs /\ recs[w[2]] = first[w[2]] /\ recs[w[2]].on = Unassigned
      /\ \A k \in DOMAIN lines : lines[k].mac # recs[w[2]].mac
  BY DEF Clean
<1>4. \A v \in works : v = <<v[1], v[2]>>
  BY DEF IInv, Typed
<1>5. \A v \in works' : v[2] # w[2]
  BY <1>1, <1>4 DEF Clean
<1>6. DOMAIN recs' \subseteq DOMAIN first /\ \A r \in DOMAIN recs' : recs'[r] = first[r]
  BY <1>2 DEF Clean
<1>7. \A r \in DOMAIN first \ DOMAIN recs' : first[r].on = Unassigned
  BY <1>2, <1>3 DEF Clean
<1>8. \A k \in DOMAIN lines : \A r \in DOMAIN first :
          first[r].mac = lines[k].mac => r \in DOMAIN recs'
  BY <1>2, <1>3 DEF Clean
<1>9. \A v \in works' : /\ v[1] = 1 /\ v[2] \in DOMAIN recs' /\ recs'[v[2]].on = Unassigned
                        /\ \A k \in DOMAIN lines : lines[k].mac # recs'[v[2]].mac
  BY <1>1, <1>2, <1>5 DEF Clean
<1>10. ASSUME NEW r \in DOMAIN recs', recs'[r].on = Unassigned, recs'[r].mac \in Doubles
       PROVE  \/ \E k \in DOMAIN lines : lines[k].mac = recs'[r].mac
              \/ <<1, r>> \in works'
  <2>1. r \in DOMAIN recs /\ r # w[2] /\ recs'[r] = recs[r]
    BY <1>2
  <2>2. <<1, r>> # w
    BY <2>1
  <2> QED
    BY <1>1, <1>10, <2>1, <2>2 DEF Clean
<1>11. /\ pc' # "lint" /\ pc' \notin {"failed", "refused"} /\ lines' = lines /\ first' = first
       /\ \A k \in DOMAIN lines :
              /\ lines[k].target = Unassigned /\ lines[k].mac \in Doubles
              /\ \A j \in DOMAIN lines : j # k => lines[j].mac # lines[k].mac
  BY <1>1 DEF Clean
<1>12. \A k \in DOMAIN lines' :
           /\ lines'[k].target = Unassigned /\ lines'[k].mac \in Doubles'
           /\ \A j \in DOMAIN lines' : j # k => lines'[j].mac # lines'[k].mac
           /\ \A r \in DOMAIN first' : first'[r].mac = lines'[k].mac => r \in DOMAIN recs'
  BY <1>1, <1>8, <1>11
<1>13. \A r \in DOMAIN recs' :
           recs'[r].on = Unassigned /\ recs'[r].mac \in Doubles' =>
               \/ \E k \in DOMAIN lines' : lines'[k].mac = recs'[r].mac
               \/ <<1, r>> \in works'
  BY <1>1, <1>10, <1>11
<1>14. \A v \in works' :
           /\ v[1] = 1 /\ v[2] \in DOMAIN recs' /\ recs'[v[2]].on = Unassigned
           /\ \A k \in DOMAIN lines' : lines'[k].mac # recs'[v[2]].mac
  BY <1>9, <1>11
<1> QED
  BY <1>6, <1>7, <1>11, <1>12, <1>13, <1>14 DEF Clean

LEMMA CleanStep == CInv /\ [Next]_vars => CInv'
<1> SUFFICES ASSUME CInv, [Next]_vars PROVE CInv'
  OBVIOUS
<1>1. IInv'
  BY StepHolds DEF CInv
<1>2. ASSUME Alone' PROVE Clean'
  <2>1. cmd' = cmd
    BY DEF Next, vars, Lint, PlanAll, PlanNext, Delete, Refused, LineDone, Finish,
           SomeoneMoves, SomeoneAdds, SomeoneDeletes
  <2>2. IInv /\ Alone /\ Clean
    BY <1>2, <2>1 DEF CInv, Alone
  <2>3. ~Busy /\ cmd.stream
    BY <2>2 DEF Busy, Alone, IInv, Typed, IsCommand
  <2>4. CASE UNCHANGED vars
    BY <2>2, <2>4 DEF vars, Clean, Doubles
  <2>5. CASE Lint
    BY <2>2, <2>5, CleanLint
  <2>6. CASE PlanNext
    BY <2>2, <2>6, CleanPlan
  <2>7. CASE \E w \in works : Delete(w)
    BY <2>2, <2>7, CleanDelete
  <2>8. CASE \E w \in works : Refused(w)
    BY <2>2, <2>8 DEF Clean, Refused
  <2>9. CASE LineDone \/ Finish
    <3>1. /\ UNCHANGED <<recs, cmd, lines, works, first>> /\ Doubles' = Doubles
          /\ pc # "lint" /\ pc' \in {"ready", "done"}
      BY <2>9 DEF LineDone, Finish, Doubles
    <3> QED
      BY <2>2, <3>1 DEF Clean
  <2>10. CASE PlanAll
    BY <2>3, <2>10 DEF PlanAll
  <2> QED
    BY <2>3, <2>4, <2>5, <2>6, <2>7, <2>8, <2>9, <2>10
    DEF Next, SomeoneMoves, SomeoneAdds, SomeoneDeletes
<1> QED
  BY <1>1, <1>2 DEF CInv

\* The pipeline ends well, keeps the assigned copies of each MAC, and leaves the
\* lint nothing to find.
THEOREM ThePipelineCleansUp == Spec => []PipelineCleansUp
<1>1. Init => CInv
  BY InitHolds, CleanInit DEF CInv
<1>2. ASSUME CInv PROVE PipelineCleansUp
  <2> SUFFICES ASSUME Alone
               PROVE  /\ pc \notin {"failed", "refused"}
                      /\ pc = "done" =>
                             /\ Findings(recs, TRUE, FALSE) = {}
                             /\ \A mac \in Macs : Assigned(recs, mac) = Assigned(first, mac)
    BY DEF PipelineCleansUp, Alone
  <2>1. IInv /\ Clean
    BY <1>2 DEF CInv
  <2>2. ASSUME pc = "done", NEW mac \in Findings(recs, TRUE, FALSE)
        PROVE  FALSE
    <3>1. PICK r \in DOMAIN recs : recs[r].mac = mac /\ recs[r].on = Unassigned
      BY <2>2 DEF Findings, Wanted, Loose, Copies
    <3>2. Copies(recs, mac) \subseteq Copies(first, mac)
      BY <2>1 DEF Clean, Copies
    <3>3. Cardinality(Copies(recs, mac)) <= Cardinality(Copies(first, mac))
      BY <2>1, <3>2, CopiesAreFinite, FS_Subset DEF IInv, Typed
    <3>4. Cardinality(Copies(first, mac)) >= 2
      BY <2>1, <2>2, <3>3, CopiesAreFinite DEF Findings, Duplicates, IInv, Typed
    <3>5. r \in Loose(first, mac)
      BY <2>1, <3>1 DEF Clean, Loose, Copies
    <3>6. mac \in Doubles
      BY <2>2, <3>4, <3>5 DEF Doubles, Findings, Duplicates, Wanted
    <3>7. lines = << >> /\ works = {}
      BY <2>1, <2>2 DEF IInv, Stages
    <3>8. \/ \E k \in DOMAIN lines : lines[k].mac = recs[r].mac
          \/ <<1, r>> \in works
      BY <2>1, <2>2, <3>1, <3>6 DEF Clean
    <3> QED
      BY <3>7, <3>8
  <2>3. ASSUME NEW mac \in Macs
        PROVE  Assigned(recs, mac) = Assigned(first, mac)
    BY <2>1 DEF Clean, Assigned, Loose, Copies
  <2> QED
    BY <2>1, <2>2, <2>3 DEF Clean
<1> QED
  BY <1>1, <1>2, CleanStep, PTL DEF Spec
=============================================================================
