SPECIFICATION Spec
CONSTANTS
    HOST_PREFIXLEN <- MCHostPrefixlen
    AllNetworks <- MCNetworks
    AllAddresses <- MCAddresses
    None = None
    MaxRecords = 3
INVARIANTS
    Caches
PROPERTIES
    AnswersAreTrue
