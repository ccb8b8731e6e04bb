SPECIFICATION MCSpec
CONSTANTS
    Scripts <- MCScripts
    MaxHeader = 35
    MaxBody = 45
    SData = 4
    Room = 8
    Frames <- MCFrames
    Len7Max = 2
    Len16Max = 4
    MsgBufInit = 2
    MsgBufMax = 4
    MaxRaw = 2
    FileLens = {0, 1, 2, 3, 5}
    FileBuf = 2
    HConns = {c1, c2}
    HWorkers = {w1, w2}
    MaxReqs = 2
    Addrs = {a, b}
    MaxRequests = 3
    PathChars = {1, 2}
    Slash = 1
    PathLen = 3
    MaxRoutes = 2
    MaxBytes = 3
    RecSize = 2
    ReadLen = 1
    Stoppers = {s1, s2}
    MaxRuns = 2
    Places = {p1, p2}
    MaxSessions = 3
    MaxOthers = 1
    LSocks = {k1, k2}
    EventLimits = {1, 2}
    FdSetSize = 2
INVARIANTS   
    FramedAsWritten  AnswersInOrder  RoutedInOrder
    BytesIntact StopReaches  ListenerKeeps
CHECK_DEADLOCK FALSE
