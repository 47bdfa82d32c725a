--------------------------- MODULE CloneInterface ---------------------------
(***************************************************************************)
(* nbsync clone-interface: what plan() makes of a source and a target.     *)
(***************************************************************************)
EXTENDS InterfaceWorks

\* The subinterfaces that are not skipped for their tags.
Cloned(src) == {i \in ByParent(src) : ifs[i].conf # NotCloned}

\* find_elem(): the record of this address on the target, if any; more than one
\* is an AssertionError.
Twins(ip, j) == {other \in IpsOn(j) : ips[other].addr = ips[ip].addr}
Differ(ip, other) ==
    ips[ip].anycast # ips[other].anycast \/ ips[ip].vrf # ips[other].vrf

\* IPv4Interface() of an IPv6 address is an error.
AllIPv4(i) == \A ip \in IpsOn(i) : ips[ip].addr \notin V6

\* _add_work() with a target interface, and without one.
CloneOntoFails(i, j) ==
    \/ IpsOn(i) # {} /\ ifs[i].vrf = None
    \/ ~AllIPv4(i) \/ ~AllIPv4(j)
    \/ \E other \in IpsOn(j) : \A ip \in IpsOn(i) : ips[ip].addr # ips[other].addr
    \/ \E ip \in IpsOn(i) : \E other, another \in Twins(ip, j) :
           Differ(ip, other) \/ other # another
CloneAfreshFails(i) == ifs[i].vrf = None

CloneFails(src, tgt) ==
    \/ ~TreeIsSound(src) \/ ~TreeIsSound(tgt)
    \/ ~(SubsOf(tgt) \subseteq SubsOf(src))
    \/ CloneOntoFails(IdOf(src, 0), IdOf(tgt, 0))
    \/ \E i \in Cloned(src) :
           IF IdOf(tgt, ifs[i].sub) = None THEN CloneAfreshFails(i)
           ELSE CloneOntoFails(i, IdOf(tgt, ifs[i].sub))

\* Mutant: the copy is made before the original is anycast.
CopyFirst(ip, j, port, sub) ==
    {AssignIPAddress(<<sub, 2, ip, 1>>, ip, j, port, sub)}
        \cup (IF ips[ip].anycast THEN {} ELSE {MakeAnycast(<<sub, 2, ip, 2>>, ip)})

CopyIp(ip, j, port, sub) ==
    (IF ips[ip].anycast THEN {} ELSE {MakeAnycast(<<sub, 2, ip, 1>>, ip)})
        \cup {AssignIPAddress(<<sub, 2, ip, 2>>, ip, j, port, sub)}

\* Mutant: the addresses that are on the target are copied again.
AllOf(i, j) == IpsOn(i)

\* Those of the addresses on i that are not yet on the target interface j.
Missing(i, j) == {ip \in IpsOn(i) : j = None \/ Twins(ip, j) = {}}

\* Mutant: a subinterface that the target has is not looked into.
CloneOnce(i, tgt) ==
    LET sub == ifs[i].sub
    IN  IF IdOf(tgt, sub) # None THEN {}
        ELSE {CreateInterface(<<sub, 1>>, tgt, sub, IdOf(tgt, 0), Values(i))}
                 \cup UNION {CopyIp(ip, None, tgt, sub) : ip \in IpsOn(i)}

\* _add_work()
CloneOne(i, tgt) ==
    LET sub == ifs[i].sub
        j == IdOf(tgt, sub)
        interface ==
            IF j = None THEN {CreateInterface(<<sub, 1>>, tgt, sub, IdOf(tgt, 0), Values(i))}
            ELSE IF Values(i) = Values(j) THEN {}
            ELSE {ModifyInterface(<<sub, 1>>, j, Values(i))}
    IN  interface \cup UNION {CopyIp(ip, j, tgt, sub) : ip \in Missing(i, j)}

ClonePlan(src, tgt) ==
    UNION {CloneOne(i, tgt) : i \in {IdOf(src, 0)} \cup Cloned(src)}
=============================================================================
