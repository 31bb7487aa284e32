CONSTANTS
    NULL = NULL
    Sources <- MCSources
    TSVals <- MCTSVals
    Names <- MCNames
    Vals <- MCVals
    OpNames <- MCOpNames
    Hows <- MCHows
    Wheres <- MCWheres
    MaxRules = 2
    SourceKinds = {"file"}
    Gone = Gone
    FileNames <- MCFileNames
    InitDisk <- MCInitDisk
    FileArrays <- MCFileArrays
    LogFiles <- MCLogFiles
    MaxDiskFaults = 1
SPECIFICATION TraverseSpec
PROPERTY EndMeansAllFilesRead
