CONSTANTS
    NULL = NULL
    NoTS = NoTS
    Gone = Gone
    TSVals <- MCTSVals
    FileNames <- MCFileNames
    LogFiles <- MCLogFiles
    InitDisks <- MCInitDisks
    StdinLines <- MCStdinLines
    UserFiles <- MCUserFiles
    Sources <- MCSources
    ReportTypes <- MCReportTypes
    MaxDiskFaults = 0
SPECIFICATION Spec
INVARIANT TypeOK
INVARIANT ReportCoversLogs
INVARIANT EventGrouping
CHECK_DEADLOCK FALSE
