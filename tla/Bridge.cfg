SPECIFICATION FairSpec
CONSTANTS
    Clients = {c1, c2}
    Timeouts = TRUE
    MaxBridges = 4
INVARIANTS Heard OwnUnlessDisturbed
PROPERTY Returns
CHECK_DEADLOCK FALSE
