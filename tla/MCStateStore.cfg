CONSTANTS
    p1 = p1
    p2 = p2
    p3 = p3
    Proc = {p1, p2, p3}
    Commands = {"apply", "apply --sync", "init", "init --force", "env"}
    Absent = Absent
    Torn = Torn
    None = None
    MaxFlushes = 2

SYMMETRY Symmetry

SPECIFICATION Spec

INVARIANTS
    TypeOK
    MutualExclusion
    LockNamesHolder
    BackupIsPreApply

PROPERTIES
    ImplementsRegister

\* Every process runs one command.
CHECK_DEADLOCK FALSE
