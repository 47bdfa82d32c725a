\* The call is over once it is answered and no copy is under way any more.
CHECK_DEADLOCK FALSE
SPECIFICATION CallFairSpec
CONSTANTS
    Methods <- MCMethods
    RETRY_METHODS <- MCRetryMethods
    Retries = 3
    Timeout = "5,60"
    NoTimeout = "None"
INVARIANTS
    WriteSentOnce
    ReadTriesAll
PROPERTIES
    CallEnds
    ImplementsApiCall
