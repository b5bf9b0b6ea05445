CONSTANTS
    u1 = u1
    u2 = u2
    u3 = u3
    Updates = {u1, u2, u3}
    Requires <- MCRequires
    Sessions = {s1}
    RoomIds = {r1}
    NoRoom = NoRoom
    CompactAfter = 2
    MaxDocument = 4
    Events = {"store", "crash", "stop"}
    MaxFaults = 2
    MaxRestarts = 1
SPECIFICATION Spec
SYMMETRY Symmetry
INVARIANTS
    SizeCoversDocument
    CountersMatchStore
    GracefulExitSavesAll
PROPERTIES
    KeepsItsPromise
CHECK_DEADLOCK FALSE
