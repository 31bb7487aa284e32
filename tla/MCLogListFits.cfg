CONSTANTS
    NULL = NULL
    Sources <- MCSources
    TSVals <- MCTSVals
    Names <- MCNames
    Vals <- MCVals
    OpNames <- MCOpNames
    Hows <- MCHows
    Wheres <- MCWheres
    MaxRules = 2
    SourceKinds = {"logs"}
    Gone = Gone
    FileNames <- MCFileNames
    InitDisk <- MCInitDiskNoLogs
    FileArrays <- MCFileArrays
    LogFiles <- MCLogFiles
    MaxDiskFaults = 0
SPECIFICATION TraverseSpec
INVARIANT LogListFits
