CONSTANTS
    Apply = {"tty", "ci"}
    Interactive = {"tty"}
    Resource = {"go", "gopls", "rg", "tap"}
    LastSecond = 2
    Keep = 2
    Download = {"rg"}
    Repository = {"tap"}
    MaxLogLines = 1
    MaxOutput <- MCMaxOutput
    MaxKills = 1
    None = None
    Plans <- MCPlans
SPECIFICATION MCSpec
INVARIANTS
    LogsTellFailures
    ViewTellsTheApply
CHECK_DEADLOCK FALSE
