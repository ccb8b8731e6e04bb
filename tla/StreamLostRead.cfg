SPECIFICATION FairSpec
CONSTANTS
    Workers = {w1, w2}
    Socks = {s1}
    Apps = {}
    MaxEvents = 2
    MaxSend = 2
    MaxAppOps = 0
    ConnectFlags <- AutoFlags
    ConnectResults = {"none"}
    Reactions = {"none"}
    WriteResults = {"ok"}
    ReadWants = {}
    AppOps = {}
    PeerEnds = {}
    Faults = {}
    StopAllowed = FALSE
PROPERTY ReadsServed
