SPECIFICATION FairSpec
CONSTANTS
    Records = {1}
    Kind <- OneAction
    Sweepers = {s1}
    EscalateOverdue = 2
    EscalateStale = 2
    PolicyDays = 2
    MaxDays = 2
    MayFail = FALSE
INVARIANTS EventsTellStatus
PROPERTIES SurfacesAtFirst
