SPECIFICATION Spec
CONSTANTS
    p = p
    q = q
    far = far
    x = x
    virtual = virtual
    physical = physical
    v = v
    w = w
    a1 = a1
    a2 = a2
    a6 = a6
    Ports = {p, q}
    SubNumbers = {1, 2}
    OtherEnds = {far}
    Cables = {1, 2}
    IdOfEnd <- MCIdOfEndClash
    Blank = Blank
    NotCloned = NotCloned
    Confs = {Blank, NotCloned, x}
    Kinds = {physical, virtual}
    VRFs = {v, w}
    Addrs = {a1, a2, a6}
    V6 = {a6}
    Ids = {1, 2, 3, 4, 5, 6, 7, 8}
    Ips = {1, 2, 3, 4, 5, 6}
    None = None
    Gone = Gone
    Situations <- MCSituations
INVARIANT MigrateMovesTheCable
CHECK_DEADLOCK FALSE
