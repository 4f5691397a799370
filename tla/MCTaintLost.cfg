CONSTANTS
    Runtime = {"go"}
    Tool = {"gopls", "jq"}
    Version = {"v1", "v2"}
    Latest = "latest"
    None = None
    Ref <- OwnRef
    Bin <- MCBin
    Tainting = {"go"}
    Faults = {"install"}
    Patient = TRUE
    MaxChanges = 1
    MaxFaults = 1

SPECIFICATION Spec

INVARIANTS
    BuiltWithInstalled
