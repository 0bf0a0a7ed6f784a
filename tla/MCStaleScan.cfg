SPECIFICATION MCSpec
CONSTANTS
    u1 = u1
    u2 = u2
    n1 = n1
    n2 = n2
    x1 = x1
    x2 = x2
    None = None
    Unread = Unread
    Dir = Dir
    Urls = {u1, u2}
    Names = {n1, n2}
    Pictures = {x1, x2}
    PictureAt <- MCPictureAt
    SizeOf <- MCSizeOf
    MAX_ENTRIES = 1
    MAX_BYTES = 3
    MaxJobs = 1
    MaxChanges = 4
    MaxCrashes = 0
INVARIANTS
    MemoNamesNewest
SYMMETRY Alike
CHECK_DEADLOCK FALSE
