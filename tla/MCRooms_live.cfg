CONSTANTS
    u1 = u1
    u2 = u2
    u3 = u3
    Updates = {u1}
    Requires <- MCRequires
    Sessions = {s1, s2}
    RoomIds = {r1, r2}
    NoRoom = NoRoom
    CompactAfter = 1
    MaxDocument = 4
    Events = {"store", "delete", "cancel"}
    MaxFaults = 2
    MaxRestarts = 0
SPECIFICATION FairSpec
PROPERTIES
    EvictionSparesPeers
    EvictionLeavesNothing
    QueuedIsSaved
    IdleRoomsUnload
CHECK_DEADLOCK FALSE
