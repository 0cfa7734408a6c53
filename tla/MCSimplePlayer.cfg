CONSTANTS
    Files <- AllFiles
    Delay = 1
    PacketSamples = 2
    CallSamples = 3
    MaxCloses = 1
    MaxBlocks = 3
    MaxEvents = 3
SPECIFICATION MCSpec
INVARIANTS PacketsHandedOver SoundInOrder EveryFrameShown OthersHaveEnded
PROPERTY PlayersEnd
CHECK_DEADLOCK FALSE
