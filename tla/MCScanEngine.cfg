SPECIFICATION FairSpec
CONSTANTS
    NumTargets = 2
    PortSpec <- MCPortSpec
    V6Targets <- MCV6Targets
    MaxRetries = 1
    ParallelChoices = {0, 1, 2}
    Truth <- MCTruth
INVARIANTS
    TypeOK
    PermitConservation
    NoStrayProbe
    Bookkeeping
    RetryBudget
    RowsAreVerdicts
PROPERTIES
    ImplementsPromise
    Completes
