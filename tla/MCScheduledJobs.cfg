SPECIFICATION FairSpec
CONSTANTS
    Items = {i1}
    Often = 2
INVARIANTS
    SaidOnce
    NeverTwice
    NeverLost
CHECK_DEADLOCK FALSE
PROPERTIES
    TakenUp
