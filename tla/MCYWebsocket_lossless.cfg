CONSTANTS
    u1 = u1
    u2 = u2
    u3 = u3
    Clients = {a, b}
    Readers = {}
    Updates = {u1, u2, u3}
    Requires <- Chain
    Server = Server
    FanoutCapacity = 1
    SocketBuffer = 2
    MaxDocument = 3
    Events = {"pause", "presence", "drop", "evict"}
    MaxEvents = 1
SPECIFICATION Spec
SYMMETRY Symmetry
INVARIANTS
    NothingMissed
    NothingForgotten
    NoHoles
CHECK_DEADLOCK FALSE
