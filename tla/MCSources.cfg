SPECIFICATION MCSpec
CONSTANTS
    a = a
    None = None
    Newline = Newline
    Text = {a}
    MAX_LINE_BYTES = 1
    READ_CHUNK = 3
    EVENT_QUEUE = 2
    MAX_U32 = 3
    FORCED_MODE = None
    Schemes <- MCSchemes
    MaxInputs = 3
INVARIANTS
    STypeOK
    NothingLostBeforeHangup
    ModeFollowsPortal
    VanishedIsForgotten
    RetryInTime
PROPERTIES
    ImplementsFilter
    LoopEnds
CHECK_DEADLOCK FALSE
