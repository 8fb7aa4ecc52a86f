SPECIFICATION BreakerSpec
CONSTANTS
    Callers = {c1, c2, c3}
    FailureThreshold = 3
    SuccessThreshold = 2
    Cooldown = 2
    MaxFailures = 7
SYMMETRY CallerSymmetry
INVARIANTS CountsBelowThresholds
PROPERTIES TripsOnConsecutiveFailures RecoveryIsEarned
