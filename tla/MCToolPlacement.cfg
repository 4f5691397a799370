CONSTANTS
    Tool = {"rg", "jq", "gopls", "uv"}
    Version = {"v1", "v2"}
    Latest = "latest"
    Newest = "v2"
    Name = {"rg", "ripgrep", "jq", "gopls", "pls", "uv"}
    None = None
    Way <- MCWay
    Default <- MCDefault
    Asked <- MCAsked
    Names <- MCNames
    Digest <- MCDigest
    Removable = {"uv"}
    Fallible = {"uv"}
    MaxEdits = 1
    MaxKills = 1

SPECIFICATION FairSpec

INVARIANTS
    EntriesMatchState
    PartialNeverRecorded
    HealthyAfterSuccess

PROPERTIES
    RetriesConverge

CHECK_DEADLOCK FALSE
