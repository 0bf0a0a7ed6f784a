SPECIFICATION MCSpec
CONSTANTS
    p = p
    d = d
    music = music
    None = None
    Players = {p, d}
    Urls = {u1, u2}
    Dirs = {music}
    CoversDir <- MCCoversDir
    RETRY_MAX_ATTEMPTS = 1
    MaxSeq = 3
    MaxGeneration = 3
    MaxAttempt = 3
INVARIANTS
    TypeOK
    RetryIsForLastDesired
    SlotHoldsNewestDesire
    CoverKeyedOnArt
PROPERTIES
    DesireChangeBumpsGeneration
    ShutdownIsFinal
SYMMETRY UrlSymmetry
CHECK_DEADLOCK FALSE
