CONSTANTS
    Streams <- MCStreams
    FileLens <- MCFileLens
    MAGIC_SIZE = 3
    RTP_PAYLOAD_MAX_SIZE = 3
    Garbage = {0}
    MaxRecv = 7
    MaxCommands = 3
    MaxSessions = 2
SPECIFICATION Spec
PROPERTY RelayEnds
CHECK_DEADLOCK FALSE
