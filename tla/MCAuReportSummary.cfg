CONSTANTS
    NULL = NULL
    NoTS = NoTS
    Gone = Gone
    TSVals <- MCTSVals
    FileNames <- MCFileNames
    LogFiles <- MCLogFiles
    InitDisks <- MCInitDisksRotated
    StdinLines <- MCStdinLines
    UserFiles <- MCUserFiles
    Sources <- MCSources
    ReportTypes <- MCReportTypes
    MaxDiskFaults = 0
SPECIFICATION Spec
CHECK_DEADLOCK FALSE
INVARIANT SummaryRangeEndsAtLastEvent
