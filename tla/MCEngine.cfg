CONSTANTS
    Runtime = {"go"}
    Tool = {"gopls", "jq"}
    Version = {"v1", "v2"}
    Latest = "latest"
    None = None
    Ref <- OwnRef
    Bin <- MCBin
    Tainting = {"go"}
    Faults = {"install", "cancel", "flush", "remove", "kill"}
    Patient = TRUE
    MaxChanges = 2
    MaxFaults = 2

SPECIFICATION FairSpec

INVARIANTS
    PlanShowsChanges
    OkMeansConverged
    NoOrphans
    NoToolOutlivesItsRuntime
    RebuiltAfterUpgrade

PROPERTIES
    EventuallyConverges
