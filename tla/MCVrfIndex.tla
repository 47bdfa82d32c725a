----------------------------- MODULE MCVrfIndex -----------------------------
(***************************************************************************)
(* VrfIndex with addresses of two and of one bit, and the number 0 in both *)
(* families, so that only the family keeps them apart.                     *)
(***************************************************************************)
EXTENDS VrfIndex

MCHostPrefixlen == [v \in {4, 6} |-> IF v = 4 THEN 2 ELSE 1]
Net(version, address, prefixlen) ==
    [version |-> version, address |-> address, prefixlen |-> prefixlen]
MCNetworks ==
    {Net(4, 0, 0), Net(4, 0, 1), Net(4, 2, 1), Net(4, 0, 2), Net(4, 3, 2),
     Net(6, 0, 0), Net(6, 1, 1)}
MCAddresses ==
    {[version |-> 4, value |-> 0], [version |-> 4, value |-> 3],
     [version |-> 6, value |-> 1]}
=============================================================================
