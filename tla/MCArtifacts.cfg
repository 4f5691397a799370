CONSTANTS
    Requests <- MCRequests
    Contents = {"ours", "other", "garbage"}
    File = "tool.tar.gz"
    Worker = {w1, w2, w3}
    Ref = {"old", "new"}
    Unset = Unset
    PackageRequests <- MCPackageRequests
    Definition <- MCDefinition
    Halves <- MCHalves
    Process = {"p1", "p2"}
    MaxVersion = 2
    Faulty = {"download", "copy", "rename", "chmod", "run", "rollback", "cleanup"}
    MaxFaults = 2
    None = None

SPECIFICATION ArtifactsSpec

SYMMETRY WorkerSymmetry

INVARIANTS
    OnlyStatedContent
    OrderOfEntriesIrrelevant
    ResolvesAsPublished
    SomeBinaryWorks

PROPERTIES
    OutcomeIsTrue

CHECK_DEADLOCK FALSE
