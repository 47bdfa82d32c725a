\* The process ends.
CHECK_DEADLOCK FALSE
SPECIFICATION FairSpec
CONSTANTS
    MaxTyped = 2
    MaxLines = 2
    MaxWorks = 2
INVARIANTS
    ConsentCovers
    BatchPlansFirst
    OnlyLastInDoubt
    FailedItemsWroteNothing
    ExitZeroMeansDone
PROPERTIES
    NoPlanOverDoubt
    RunEnds
