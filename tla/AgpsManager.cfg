SPECIFICATION Spec
CONSTANTS
    Capability = "tbAndTa"
    LsAsks <- AutoOrTA
    NrhAsks <- TBOnly
    Tracks = {TRUE, FALSE}
    PowerModes <- AllPower
    CellTimings = {TRUE}
    Budgets <- Scenes
INVARIANTS
    TypeOK
    ActiveIsLocated
    ModeFollows
    LsNeverForgotten
    CancelFollowsRequest
    SessionIsAnnounced
    StatusIsCurrent
    PowerSuffices
CHECK_DEADLOCK FALSE
