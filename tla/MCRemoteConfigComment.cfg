CONSTANTS
    NULL = NULL
    Words <- MCWords
    WordLen <- MCWordLen
    Hashed <- MCHashed
    ExecPrefixed <- MCExecPrefixed
    Files <- MCFilesComment
    BufSize = 128
    IntBits = 8
    LongBits = 16
SPECIFICATION Spec
CHECK_DEADLOCK FALSE
INVARIANT ConfigReflectsFile
