CONSTANTS
    OutSz = 2
    NumSz = 6
    HLen = 2
    MsgSize <- MCMsgSize
    MaxIn = 3
    MaxConnects = 2
    ClientsClose = FALSE
SPECIFICATION Spec
INVARIANT NoOverread
CHECK_DEADLOCK FALSE
