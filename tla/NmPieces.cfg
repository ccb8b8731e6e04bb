SPECIFICATION Spec
CONSTANTS
    HostOrder = "LE"
    ReqMsgs <- MCReqMsgs
    RepMsgs <- MCRepMsgs
    MaxReq = 2
    MaxPush = 1
    MaxRecv = 2
    PipeCap = 5
INVARIANTS RepliesInOrder WellFramed PendingWatched
PROPERTIES RequestsInOrder
CHECK_DEADLOCK FALSE
