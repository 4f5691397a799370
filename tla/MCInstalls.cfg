CONSTANTS
    Runtime = {"go", "rust", "node"}
    Version = {"v1", "v2"}
    Alias = "stable"
    Asked <- MCAsked
    Newest = "v2"
    Binary = {"go", "gofmt", "rust", "node"}
    None = None
    Way <- MCWay
    Binaries <- MCBinaries
    BinDir <- MCBinDir
    Removable = {"rust"}
    Fallible = {"go", "rust"}
    MaxEdits = 2
    MaxKills = 1
    Repo = {"bitnami", "custom"}
    Url = {"u1", "u2"}
    Installer = {"helm", "aqua"}
    RepoRemovable = {"bitnami"}
    RepoEdits = 2

SPECIFICATION InstallsSpec

INVARIANTS
    NoDanglingLink
    
    ReposMatchState

CHECK_DEADLOCK FALSE
