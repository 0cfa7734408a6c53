CONSTANTS
    Files <- AllFiles
    Block = 3
    Payloads <- MCPayloads
    Numbers <- MCNumbers
SPECIFICATION MCSpec
INVARIANTS NothingLost UnitsAreTheFile CutAtStartCodes PayloadReadsBack
CHECK_DEADLOCK FALSE
