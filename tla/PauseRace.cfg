SPECIFICATION HSpec
CONSTANTS
    c1 = c1
    Clients = {c1}
    Packet = Packet
    Daemon = Daemon
    Main = Main
    Events = {"press", "release"}
    Press = "press"
    Release = "release"
    Requests <- TickerRequests
    Answers = {}
    Automations = {}
    WaitTicks = 1
    MaxQueue = 1
PROPERTY PauseStopsTime
