SPECIFICATION Spec
CONSTANTS
    Clients = {c1}
    Records = {r1}
    Owners = {o1}
    NoOwner = NoOwner
    Types = {"action", "decision", "blocker", "source_link"}
    MaxOps = 4
    MayFail = TRUE
INVARIANTS StampsAgree QuietLogs
PROPERTIES EventChain LifecycleHonoured
CHECK_DEADLOCK FALSE
