CONSTANTS
    OutSz = 2
    NumSz = 6
    HLen = 2
    MsgSize <- MCMsgSizeOne
    MaxIn = 3
    MaxConnects = 3
    ClientsClose = TRUE
SPECIFICATION Spec
INVARIANT NoOverflow
INVARIANT TypeOK
INVARIANT QueueFaithful
CHECK_DEADLOCK FALSE
