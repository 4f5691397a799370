CONSTANTS
    p1 = p1
    p2 = p2
    Proc = {p1, p2}
    Commands = {"apply", "init"}
    Absent = Absent
    Torn = Torn
    None = None
    MaxFlushes = 2

SPECIFICATION UninitSpec

INVARIANTS
    MutualExclusion

CHECK_DEADLOCK FALSE
