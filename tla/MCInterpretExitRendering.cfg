CONSTANTS
    IntBits = 4
    LongBits = 8
    UserNames = {"root", "bin", "adm"}
    NoUser = NoUser
    InitPw <- MCInitPw
    FieldInputs <- MCFieldInputs
    MaxPwChanges = 0
    EditIds = {0, 1, 5, 7, 9}
SPECIFICATION Spec
INVARIANT ExitRendering
