CONSTANTS
    Clients = {a, b, c}
    MaxConnections = 2
    MaxOpened = 3
    MaxClocks = 2
    MaxStates = 1
    FanoutCapacity = 1
    SocketBuffer = 1
SPECIFICATION Spec
SYMMETRY Symmetry
INVARIANTS
    NoPresenceMissed
    ClocksStayNear
CHECK_DEADLOCK FALSE
