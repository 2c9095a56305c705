SPECIFICATION Spec
CONSTANTS
    Capability = "tbAndTa"
    LsAsks <- AutoOrTA
    NrhAsks <- TBOnly
    Tracks = {TRUE, FALSE}
    PowerModes <- AllPower
    CellTimings = {TRUE}
    Budgets <- Scenes
INVARIANTS
    NeverFaults
CHECK_DEADLOCK FALSE
