-------------------------- MODULE SetInterfaceType --------------------------
(***************************************************************************)
(* nbsync set-interface-type: what plan() makes of a type and the ports it *)
(* is given.  The subinterfaces are not read.                              *)
(***************************************************************************)
EXTENDS InterfaceWorks

RetypedValues(i, kind) == [conf |-> ifs[i].conf, kind |-> kind, vrf |-> ifs[i].vrf]

\* plan_one(), for the k-th target: a port that has the type is left alone.
SetTypeOne(k, port, kind) ==
    LET i == IdOf(port, 0)
    IN  IF ifs[i].kind = kind THEN {}
        ELSE {ModifyInterface(<<k>>, i, RetypedValues(i, kind))}

SetTypeFails(targets) == \E k \in DOMAIN targets : IdOf(targets[k], 0) = None
SetTypePlan(targets, kind) ==
    UNION {SetTypeOne(k, targets[k], kind) : k \in DOMAIN targets}
=============================================================================
