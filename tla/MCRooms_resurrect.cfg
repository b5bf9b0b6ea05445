CONSTANTS
    u1 = u1
    u2 = u2
    u3 = u3
    Updates = {u1}
    Requires <- MCRequires
    Sessions = {s1}
    RoomIds = {r1, r2}
    NoRoom = NoRoom
    CompactAfter = 2
    MaxDocument = 4
    Events = {"delete"}
    MaxFaults = 1
    MaxRestarts = 0
SPECIFICATION Spec
SYMMETRY Symmetry
PROPERTIES
    DeletedStaysDeleted
CHECK_DEADLOCK FALSE
