SPECIFICATION Spec
CONSTANTS
    m1 = m1
    m2 = m2
    zero = zero
    Macs = {m1, m2, zero}
    NOT_REAL_MACS = {zero}
    Interfaces <- MCInterfaces
    Unassigned = Unassigned
    Nothing = Nothing
    Ids = {1, 2, 3}
    Unknown = Unknown
    Situations <- MCSituations
INVARIANTS
    OnlyWhatWasAsked
    SuccessMeansGone
    PipelineCleansUp
    NothingWrongIsExplained
CHECK_DEADLOCK FALSE
