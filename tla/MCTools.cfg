CONSTANTS
    Cases <- MCCases
    AudioStart = 2
    EndTime = 1
    MaxReads = 3
    MaxFailures = 1
    Sources <- AllSources
    Delays = {0, 1, 3}
    Frames = 3
    MaxErrors = 1
SPECIFICATION MCSpec
INVARIANTS PacketsInTheirStreams  FileComplete UnitsComeBack
INVARIANTS NothingHeldBack EncodedAsMade
PROPERTY ToolsEnd
CHECK_DEADLOCK FALSE
