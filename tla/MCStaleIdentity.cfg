SPECIFICATION MCSpec
CONSTANTS
    p = p
    d = d
    music = music
    u1 = u1
    u2 = u2
    c1 = c1
    c2 = c2
    c3 = c3
    None = None
    Players = {p, d}
    Urls = {u1, u2}
    Dirs = {music}
    CoversDir <- MCCoversDir
    Contents = {c1, c2, c3}
    ContentOf <- MCContentOf
    DirContents = {c1, c3}
    RETRY_MAX_ATTEMPTS = 1
    EVENT_QUEUE = 2
    Faults = {"rejected"}
    MaxEvents = 3
PROPERTIES
    ResultMarksItsOwnCover
CHECK_DEADLOCK FALSE
