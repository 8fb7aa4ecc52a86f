CONSTANTS
    Owners = {o1}
    NoOwner = NoOwner
    Tasks = {t1}
    Records = {r1, r2}
    NoRecord = NoRecord
    Requests = {c1, c2}
    Commands = {k1}
    MaxRequests = 2
    MaxElsewhere = 2
SPECIFICATION Spec
SYMMETRY Symmetry
INVARIANTS SuccessMeansAgreement NoOrphans SuccessorOnce
CHECK_DEADLOCK FALSE
