CONSTANTS
    OutSz = 2
    NumSz = 6
    HLen = 2
    MsgSize <- MCMsgSize
    MaxIn = 3
    MaxConnects = 2
    ClientsClose = TRUE
SPECIFICATION Spec
INVARIANT KeepsRunning
CHECK_DEADLOCK FALSE
