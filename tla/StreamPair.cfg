SPECIFICATION Spec
CONSTANTS
    Workers = {w1, w2}
    Socks = {s1, s2}
    Apps = {}
    MaxEvents = 2
    MaxSend = 1
    MaxAppOps = 0
    ConnectFlags <- AutoFlags
    ConnectResults = {"none"}
    Reactions = {"none", "close"}
    WriteResults = {"ok"}
    ReadWants = {}
    AppOps = {}
    PeerEnds = {"fin", "rst"}
    Faults = {}
    StopAllowed = TRUE
SYMMETRY Symmetry
INVARIANTS NoDangling SessionProtocol SessionsEnd
