SPECIFICATION FairSpec
CONSTANTS
    g1 = g1
    g2 = g2
    g3 = g3
    Gaps <- MCGaps
    DepthOf <- MCDepthOf
    LowSignal = {g1}
    Dispositions = {"keep", "discard"}
    Sessions = {s1}
    Threads = {t1}
    Requests = {r1}
    NoGap = NoGap
    NoThread = NoThread
    MaxDepth = 1
INVARIANTS
    TypeOK
    NobodysGap
    DepthBounded
    DiscardedStaysOut
CHECK_DEADLOCK FALSE
PROPERTIES
    SessionsGiveBack
    GapsComeBack
