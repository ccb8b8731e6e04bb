SPECIFICATION FairSpec
CONSTANTS
    Workers = {w1}
    Limit = 1
    MaxDgrams = 3
    RunModes <- OneThreaded
    Faults = {}
PROPERTY StopLeavesLoop
