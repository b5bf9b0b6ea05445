CONSTANTS
    Documents = {d, e}
    Requests = {q1, q2}
    Reporters = {p1}
    Included = 1
    MaxConversions = 2
    Events = {"terms", "store", "stripe", "refuse", "crash"}
    MaxEvents = 2
SPECIFICATION FairSpec
INVARIANTS
    CountIsExact
    BilledOnce
    NothingUnbilled
PROPERTIES
    FreeCapHolds
    AllIsReported
CHECK_DEADLOCK FALSE
