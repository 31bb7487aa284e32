CONSTANTS
    IntBits = 4
    LongBits = 8
    UserNames = {"root", "bin", "adm"}
    NoUser = NoUser
    InitPw <- MCInitPw
    FieldInputs <- MCFieldInputs
    MaxPwChanges = 1
    EditIds = {0, 1, 5, 7, 9}
SPECIFICATION Spec
INVARIANT TypeOK
INVARIANT LookedUpOnce
INVARIANT EscapedRoundTrip
PROPERTY CacheKeepsEntries
