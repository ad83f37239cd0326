SPECIFICATION ListenerSpec
CONSTANTS
    c1 = c1
    c2 = c2
    Clients = {c1, c2}
    NoClient = NoClient
    SetupPorts <- OneSetup
    Faults = {"abort", "halfclose", "vanish"}
INVARIANT OneAnswerPerRequest
PROPERTIES ListenerReturns RequestAnswered
