SPECIFICATION FairSpec
CONSTANTS
    c1 = c1
    c2 = c2
    Clients = {c1}
    Packet = Packet
    Daemon = Daemon
    Main = Main
    Events = {"press", "release"}
    Press = "press"
    Release = "release"
    Requests <- SteppedRequests
    Answers = {}
    Automations = {}
    WaitTicks = 2
    MaxQueue = 1
PROPERTIES WorkIsSent StepReturns
