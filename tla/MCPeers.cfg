SPECIFICATION MCPeersSpec
CONSTANTS
    Parties = {a, b}
    MaxKeys = 5
    MaxFlight = 2
    Ends = {a, b}
    MaxConversations = 2
    MaxData = 3
    MaxWire = 2
    Users = {a, b}
    Secrets = {"marks", "foreign"}
    ToAscii <- MCToAscii
    ToUtf8 <- MCToUtf8
    MaxExponents = 4
    MaxLine = 2
    Blocks = 4
    Hosts = 2
    MaxDrops = 1
    Components = {rtp}
    Paths = 2
    Remotes = {r1, r2}
    MaxChannels = 2
    MaxTries = 2
    MaxStunTries = 1
INVARIANTS
    MCPeersTypeOK AkeAgreement OneSessionPerKey SettledTogether ExchangeConcludes
    StaysReadable NoCounterReuse AcceptedOnce PublishedIsDead
    OutcomesAgree PartiesAgree PathWorks ChannelsBacked
    VerdictIsTrue SmpConcludes
CHECK_DEADLOCK FALSE
