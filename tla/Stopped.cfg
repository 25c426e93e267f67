SPECIFICATION HSpec
CONSTANTS
    c1 = c1
    Clients = {c1}
    Packet = Packet
    Daemon = Daemon
    Main = Main
    Events = {"press", "release"}
    Press = "press"
    Release = "release"
    Requests <- StoppedRequests
    Answers = {}
    Automations = {}
    WaitTicks = 2
    MaxQueue = 1
PROPERTIES PauseStopsTime HoldExact
