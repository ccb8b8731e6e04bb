SPECIFICATION FairSpec
CONSTANTS
    Workers = {w1}
    Socks = {s1}
    Apps = {a1}
    MaxEvents = 2
    MaxSend = 0
    MaxAppOps = 1
    ConnectFlags <- AutoFlags
    ConnectResults = {"none"}
    Reactions = {"none"}
    WriteResults = {"ok"}
    ReadWants = {}
    AppOps = {"close"}
    PeerEnds = {"rst"}
    Faults = {}
    StopAllowed = FALSE
PROPERTY CloseReported
CHECK_DEADLOCK FALSE
