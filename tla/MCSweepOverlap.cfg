SPECIFICATION Spec
CONSTANTS
    Records = {1}
    Kind <- OneBlocker
    Sweepers = {s1, s2}
    EscalateOverdue = 2
    EscalateStale = 2
    PolicyDays = 2
    MaxDays = 2
    MayFail = TRUE
SYMMETRY SweeperSymmetry
PROPERTIES SweepExact
