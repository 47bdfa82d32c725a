SPECIFICATION Spec
CONSTANTS
    red = red
    blue = blue
    active = active
    role1 = role1
    bmc = bmc
    swp1 = swp1
    bond = bond
    lo = lo
    HOST_PREFIXLEN <- MCHostPrefixlen
    AllNetworks <- MCNetworks
    AllAddresses <- MCAddresses
    DEFAULT_MIN_PREFIXLEN <- MCMinPrefixlen
    Reserved = Reserved
    ThirdParty = ThirdParty
    All = All
    FILTER_CHUNK = 2
    SKIPPED_NAMES = {lo}
    BmcNames = {bmc}
    None = None
    Gone = Gone
    Situations <- MCSituations
INVARIANTS
    StandingFaultsAreReported
    NothingExcusedIsReported
    CleanMeansClean
CHECK_DEADLOCK FALSE
