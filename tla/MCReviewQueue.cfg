SPECIFICATION Spec
CONSTANTS
    i1 = i1
    i2 = i2
    Items = {i1}
    Type <- OneDecision
    Reviewers = {r1, r2}
    DaysByType <- OneDay
    DaysBySeverity <- SeverityDays
    BumpAfter = 2
    EscalateAfter = 3
    MaxActions = 4
    MayFail = TRUE
SYMMETRY ReviewerSymmetry
INVARIANTS RepeatedFlagged RepeatedSurface NeverOvercounted
CHECK_DEADLOCK FALSE
