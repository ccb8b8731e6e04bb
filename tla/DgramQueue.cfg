SPECIFICATION FairSpec
CONSTANTS
    Workers = {w1, w2}
    Limit = 2
    MaxDgrams = 4
    RunModes <- DirectThenThreaded
    Faults = {"eintr", "epoll", "recv"}
INVARIANTS TypeOK QueueBound HandedOutInOrder SynchAlive
PROPERTIES QueueServed BackpressureEnds
