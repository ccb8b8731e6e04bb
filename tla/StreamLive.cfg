SPECIFICATION FairSpec
CONSTANTS
    Workers = {w1, w2}
    Socks = {s1}
    Apps = {}
    MaxEvents = 2
    MaxSend = 1
    MaxAppOps = 0
    ConnectFlags <- AutoFlags
    ConnectResults = {"none"}
    Reactions = {"none", "close"}
    WriteResults = {"ok"}
    ReadWants = {}
    AppOps = {}
    PeerEnds = {"fin", "rst"}
    Faults = {}
    StopAllowed = TRUE
PROPERTIES CloseReported ReleasedFreed DrainCompletes
