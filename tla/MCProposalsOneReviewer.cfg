SPECIFICATION Spec
CONSTANTS
    p1 = p1
    p2 = p2
    Proposals = {p1, p2}
    Type <- TwoTypes
    Records = {r1, r2, r3}
    NoRecord = NoRecord
    NoProposal = NoProposal
    Clients = {c1}
    MaxReviews = 3
    MayFail = TRUE
    MayRefuse = TRUE
    MayEditTasks = TRUE
INVARIANTS AcceptedBacked PromotedOnce VerdictTold Traced
PROPERTIES ReviewHonoured
CHECK_DEADLOCK FALSE
