CONSTANTS
    Node = {"go", "rust", "tap", "gh", "goimports", "jq", "staticcheck", "dlv", "gopls"}
    Layers = 3
    Layer <- MCLayer
    Kind <- MCKind
    RuntimeRef <- MCRuntimeRef
    InstallerRef <- MCInstallerRef
    Delegating = {"brew"}
    None = None
    Rank <- MCRank
    Parallelism = 2

SPECIFICATION FairSpec

INVARIANTS
    DelegationExclusive
    StartsAfterDependencies
    OthersStillRun
    SuccessMeansComplete
    FinishedWorkIsSaved

PROPERTIES
    ImplementsContract
    ApplyReturns

\* The loop ends.
CHECK_DEADLOCK FALSE
