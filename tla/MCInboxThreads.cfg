SPECIFICATION FairSpec
CONSTANTS
    Threads = {t1}
    Clients = {c1}
    Runner = runner
    Workers = {w1, w2}
    NoThread = NoThread
    StaleAfter = 1
    MaxActs = 3
    MaxFaults = 1
INVARIANTS
    NoStrayAnswer
    PacketTellsThread
PROPERTIES
    WaitingEnds
    EveryQuestionAnswered
CHECK_DEADLOCK FALSE
