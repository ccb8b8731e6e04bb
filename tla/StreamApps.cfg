SPECIFICATION Spec
CONSTANTS
    Workers = {w1, w2}
    Socks = {s1}
    Apps = {a1}
    MaxEvents = 1
    MaxSend = 0
    MaxAppOps = 1
    ConnectFlags <- AutoFlags
    ConnectResults = {"none", "write", "close"}
    Reactions = {"none", "write"}
    WriteResults = {"ok", "again", "wants_read"}
    ReadWants = {"wants_write"}
    AppOps = {"close", "write"}
    PeerEnds = {"fin", "err"}
    Faults = {"nonblock", "add", "rearm", "accept", "eintr", "epoll"}
    StopAllowed = FALSE
SYMMETRY Symmetry
INVARIANTS TypeOK CallbackExclusion RefAccounting
CHECK_DEADLOCK FALSE
