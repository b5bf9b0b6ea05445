CONSTANTS
    u1 = u1
    u2 = u2
    u3 = u3
    Clients = {a, b}
    Readers = {b}
    Updates = {u1, u2}
    Requires <- Flat
    Server = Server
    FanoutCapacity = 1
    SocketBuffer = 1
    MaxDocument = 5
    Events = {"pause", "presence", "drop", "delete", "crash"}
    MaxEvents = 2
SPECIFICATION FairSpec
PROPERTIES
    Converges
CHECK_DEADLOCK FALSE
