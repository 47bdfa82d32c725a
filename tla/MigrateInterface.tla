-------------------------- MODULE MigrateInterface --------------------------
(***************************************************************************)
(* nbsync migrate-interface: what plan() makes of a source and a target.   *)
(***************************************************************************)
EXTENDS InterfaceWorks

\* The side of its cable that the source is on: the a side if the one
\* termination there has the id of the source.
SourceEnd(src) ==
    LET aSide == <<at[src][1], "a">>
        bSide == <<at[src][1], "b">>
    IN  IF \E t \in Plugged(aSide) : IdOfEnd[t] = IdOfEnd[src] THEN aSide ELSE bSide

Several(terminations) == \E t, u \in terminations : t # u

\* The asserts on the cable.
CableForks(src) ==
    at[src] # None /\ \E side \in {"a", "b"} : Several(Plugged(<<at[src][1], side>>))

\* Those, the one on a subinterface that is on the target already, and the
\* subinterfaces that are on the target only.
MigrateFails(src, tgt) ==
    \/ ~TreeIsSound(src) \/ ~TreeIsSound(tgt)
    \/ CableForks(src)
    \/ SubsOf(tgt) # {}

MoveCable(src, tgt) ==
    IF at[src] = None THEN {} ELSE {ModifyCable(<<1>>, SourceEnd(src), tgt)}

MoveIps(i, tgt) ==
    {ReassignIPAddress(<<2, ifs[i].sub, 2, ip>>, ip, tgt, ifs[i].sub) : ip \in IpsOn(i)}

\* _add_work() for the port itself, and for a subinterface.
MovePort(i, tgt) ==
    LET j == IdOf(tgt, 0)
    IN  (IF Values(i) = Values(j) THEN {} ELSE {ModifyInterface(<<2, 0, 1>>, j, Values(i))})
            \cup MoveIps(i, tgt)

\* Mutant: the subinterface is deleted before its addresses are moved.
MoveChildLate(i, tgt) ==
    MoveIps(i, tgt) \cup
        {CreateInterface(<<2, ifs[i].sub, 1>>, tgt, ifs[i].sub, IdOf(tgt, 0), Values(i)),
         DeleteInterface(<<2, ifs[i].sub, 2, -1>>, i)}

MoveChild(i, tgt) ==
    MoveIps(i, tgt) \cup
        {CreateInterface(<<2, ifs[i].sub, 1>>, tgt, ifs[i].sub, IdOf(tgt, 0), Values(i)),
         DeleteInterface(<<2, ifs[i].sub, 3>>, i)}

MigratePlan(src, tgt) ==
    MoveCable(src, tgt) \cup MovePort(IdOf(src, 0), tgt)
        \cup UNION {MoveChild(i, tgt) : i \in ByParent(src)}
=============================================================================
