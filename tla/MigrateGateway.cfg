\* The runs are over.
CHECK_DEADLOCK FALSE
SPECIFICATION Spec
CONSTANTS
    Ports <- MCPorts
    SubNumbers <- MCSubNumbers
    VRFs <- MCVRFs
    Ids <- MCIds
    Ips <- MCIps
    IpAddr <- MCIpAddr
    IpVrf <- MCIpVrf
    None = None
    OnPort = OnPort
    OnVm = OnVm
    Gone = Gone
    Situations <- MCSituations
INVARIANTS
    TypeOK
    VrfKept
    SecondRunDoesNothing
    SuccessMeansMoved
    NotSelfRefused
PROPERTY ImplementsRelocation
