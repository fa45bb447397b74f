SPECIFICATION MCServiceSpec
CONSTANTS
    MaxConnections = 2
    MaxRequests = 2
    MaxBinds = 2
    Contacts = 2
    MaxStamp = 2
    MaxId = 2
    Mechanisms = {"X-FACEBOOK-PLATFORM"}
    Modes = {"Enabled", "Disabled", "Required"}
    Rounds <- MCRounds
    MaxBacklog = 1
    Jids = {"j1", "j2"}
    Resources = {"phone"}
    CardOf <- MCCardOf
    MaxArriving = 1
    Nicks = {ann, bob, eve}
    User = ann
    NoNick = NoNick
    MaxStanzas = 3
INVARIANTS
    MCServiceTypeOK InStep NegotiationConcludes TablesMirrorServer
PROPERTIES
    DepartureNoticed Resynched SessionIsAuthenticated DeadServerNoticed
    StreamKeepsContract
CHECK_DEADLOCK FALSE
