CONSTANTS
    NULL = NULL
    NoTS = NoTS
    Gone = Gone
    TSVals <- MCTSVals
    FileNames <- MCFileNames
    LogFiles <- MCLogFiles
    InitDisks <- MCInitDisks
    StdinLines <- MCStdinLines
    UserFiles <- MCUserFiles
    Sources <- MCSources
    ReportTypes <- MCReportTypes
    MaxDiskFaults = 1
SPECIFICATION FaultSpec
CHECK_DEADLOCK FALSE
INVARIANT ReportCoversLogs
