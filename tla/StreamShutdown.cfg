SPECIFICATION FairSpec
CONSTANTS
    Workers = {w1}
    Socks = {s1}
    Apps = {}
    MaxEvents = 2
    MaxSend = 0
    MaxAppOps = 0
    ConnectFlags <- AutoFlags
    ConnectResults = {"none"}
    Reactions = {"none"}
    WriteResults = {"ok"}
    ReadWants = {}
    AppOps = {}
    PeerEnds = {}
    Faults = {}
    StopAllowed = TRUE
PROPERTY ShutdownCompletes
