SPECIFICATION Spec
CONSTANTS
    Workers = {w1, w2}
    Socks = {s1}
    Apps = {}
    MaxEvents = 1
    MaxSend = 0
    MaxAppOps = 0
    ConnectFlags <- AutoFlags
    ConnectResults = {"write"}
    Reactions = {"none"}
    WriteResults = {"ok", "again"}
    ReadWants = {}
    AppOps = {}
    PeerEnds = {"fin"}
    Faults = {}
    StopAllowed = FALSE
SYMMETRY Symmetry
INVARIANT NoDangling
