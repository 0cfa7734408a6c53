CONSTANTS
    Relays = FALSE
    Client = {c1, c2}
    Method = {"SETUP", "PLAY", "TEARDOWN"}
    Port = {p1, p2}
    NoPort = NoPort
    NoClient = NoClient
    FileUnits = 1
    From = 0
    To = 3
    MaxFds = 4
    MaxRequests = 2
    MaxSessions = 3
    Streams <- MCStreams
    FileLens <- MCFileLens
    MAGIC_SIZE = 3
    RTP_PAYLOAD_MAX_SIZE = 3
    Garbage = {0}
    MaxRecv = 6
    MaxCommands = 4
    MaxPlayers = 1
SPECIFICATION MCSpec
INVARIANTS RepliesMatchRequests StreamGoesWhereAsked TcpServersSurvive
PROPERTY EveryoneServed
CHECK_DEADLOCK FALSE
