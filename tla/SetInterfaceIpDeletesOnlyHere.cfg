SPECIFICATION Spec
CONSTANTS
    Interfaces <- SharedInterfaces
    Targets = {"eth0", "vm"}
    Place <- SharedPlace
    Addrs = {"a", "b"}
    VRFs = {"-", "MGMT"}
    Statuses = {"active", "dhcp"}
    Ids = {1, 2, 3, 4, 5}
    None = None
    Deleted = Deleted
    Nothing = Nothing
    Unrecognised = Unrecognised
    Unassigned = Unassigned
    Situations <- SharedSituations
PROPERTIES
    DeletesOnlyHere
CHECK_DEADLOCK FALSE
