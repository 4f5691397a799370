CONSTANTS
    Node = {"Runtime/go", "Installer/brew", "InstallerRepository/tap", "Tool/a", "Tool/b"}
    Kind <- MCKind

SPECIFICATION FairSpec

INVARIANTS
    CycleIsReal
    EveryNodeInOneLayer
    LayerOrder
    NoNeedlessWait

PROPERTIES
    ResolverEnds

\* The resolver stops once it has layers or a cycle.
CHECK_DEADLOCK FALSE
