SPECIFICATION Spec
CONSTANTS
    CmdChunks = {1, 2}
    RspChunks = {1, 3}
    SameThread = TRUE
    MaxExchanges = 2
    MaxRestarts = 1
    MaxQueue = 2
INVARIANTS ApdusWhole NoChunkIgnored ReadyToAnswer
PROPERTIES ExchangeEnds QueuedPacketsSent IsExchange
