---------------------------- MODULE ZapInterface ----------------------------
(***************************************************************************)
(* nbsync zap-interface: what plan() makes of the ports it is given.       *)
(***************************************************************************)
EXTENDS InterfaceWorks

\* _delete_ips()
DeleteIps(k, part, i) ==
    {DeleteIPAddress(<<k, part, ifs[i].sub, 1, ip>>, ip) : ip \in IpsOn(i)}

\* ZAPPED_VALUES: the type and the cable stay.
ZappedValues(i) == [conf |-> Blank, kind |-> ifs[i].kind, vrf |-> None]
ZapFields(k, i) ==
    IF Values(i) = ZappedValues(i) THEN {}
    ELSE {ModifyInterface(<<k, 2, ifs[i].sub, 2>>, i, ZappedValues(i))}

ZapChild(k, i) ==
    DeleteIps(k, 1, i) \cup {DeleteInterface(<<k, 1, ifs[i].sub, 2>>, i)}
ZapPort(k, i) == DeleteIps(k, 2, i) \cup ZapFields(k, i)

\* plan_one(), for the k-th target.
ZapOne(k, port) ==
    ZapPort(k, IdOf(port, 0)) \cup UNION {ZapChild(k, i) : i \in ByParent(port)}

ZapFails(targets) == \E k \in DOMAIN targets : ~TreeIsSound(targets[k])
ZapPlan(targets) == UNION {ZapOne(k, targets[k]) : k \in DOMAIN targets}
=============================================================================
