CONSTANTS
    d1 = d1
    d2 = d2
    u1 = u1
    u2 = u2
    Documents = {d1, d2}
    Readable = {}
    Updates = {u1, u2}
    Edits <- OneEdited
    MaxDocument = 1
    MaxDocuments = 1
    FanoutCapacity = 1
    OutboxCapacity = 1
    SocketBuffer = 1
    MaxInFlight = 2
    Events = {"noise", "pause", "deny", "detach", "delete", "drop"}
    MaxEvents = 3
SPECIFICATION FairSpec
INVARIANTS
    TypeOK
    PeersAreOpen
    NothingMissed
    NothingForgotten
PROPERTIES
    Converges
CHECK_DEADLOCK FALSE
