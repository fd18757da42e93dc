SPECIFICATION Spec
CONSTANTS
    Word = 16
    Batch = 3
    WindowSize = 3
    Sizes = {0, 1, 3, 8, 14, 15}
INVARIANTS
    TypeOK
    Pace
    SenderSends
    CompleteIsSent
    BytesSound
CHECK_DEADLOCK FALSE
