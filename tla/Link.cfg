SPECIFICATION Spec
CONSTANTS
    c1 = c1
    c2 = c2
    Clients = {c1, c2}
    Packet = Packet
    Daemon = Daemon
    Main = Main
    Events = {"button"}
    Press = "button"
    Release = "button"
    Requests <- LinkRequests
    Answers <- OneAnswer
    Automations <- OneRule
    WaitTicks = 1
    MaxQueue = 1
INVARIANTS OneTurn TurnNotLost NoUnexpectedState NoLostWakeup
SYMMETRY ClientSymmetry
