CONSTANTS
    RTP_PAYLOAD_MAX_SIZE = 3
    UINT16_MAX = 7
    Ticks = 2
    TsModulus = 7
    FirstLens = {0}
    Lens = {0, 2, 3, 4, 5, 7, 8}
    MaxUnits = 4
    MaxPlays = 2
SPECIFICATION Spec
INVARIANTS UnitsArrive SeqInOrder StaticsFollow
CHECK_DEADLOCK FALSE
