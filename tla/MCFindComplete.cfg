CONSTANTS
    NULL = NULL
    Sources <- MCSourcesNoZero
    TSVals <- MCTSVals
    Names <- MCNames
    Vals <- MCVals
    OpNames <- MCOpNames
    Hows <- MCHows
    Wheres <- MCWheres
    MaxRules = 2
    SourceKinds = {"buffer"}
    Gone = Gone
    FileNames <- MCFileNames
    InitDisk <- MCInitDisk
    FileArrays <- MCFileArrays
    LogFiles <- MCLogFiles
    MaxDiskFaults = 0
SPECIFICATION TraverseSpec
PROPERTY FindFieldComplete
CHECK_DEADLOCK FALSE
