CONSTANTS
    OutSz = 2
    NumSz = 6
    HLen = 2
    MsgSize <- MCMsgSizeOne
    MaxIn = 3
    MaxConnects = 2
    ClientsClose = FALSE
SPECIFICATION FairSpec
PROPERTY QueuesDrain
