SPECIFICATION Spec
CONSTANTS
    Clients = {c1}
    Timeouts = FALSE
    MaxBridges = 3
INVARIANT OwnResponse
CHECK_DEADLOCK FALSE
