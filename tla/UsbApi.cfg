SPECIFICATION Spec
CONSTANTS
    CmdChunks = {1, 2, 3}
    RspChunks = {1, 2, 3}
    SameThread = FALSE
    MaxExchanges = 2
    MaxRestarts = 0
    MaxQueue = 2
PROPERTY QueuedPacketsSent
