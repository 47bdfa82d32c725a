SPECIFICATION Spec
CONSTANTS
    Interfaces <- MCInterfaces
    Targets <- MCTargets
    Place <- MCPlace
    Addrs = {"a", "b"}
    VRFs = {"-", "MGMT"}
    Statuses = {"active", "dhcp"}
    Ids = {1, 2, 3, 4, 5}
    None = None
    Deleted = Deleted
    Nothing = Nothing
    Unrecognised = Unrecognised
    Unassigned = Unassigned
    Situations <- MCSituations
INVARIANTS
    TypeOK
    LinesStand
    SecondTimeDoesNothing
PROPERTIES
    NoSecondRecord
    TakesOnlyByForce
CHECK_DEADLOCK FALSE
