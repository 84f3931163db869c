SPECIFICATION Spec
CONSTANTS
    Cap = 2
    PendingMax = 1
    Text <- MCText
    Chars <- MCChars
    KeyBytes <- MCKeyBytes
    Files <- MCFiles
    MaxLine = 2
    MaxEnters = 1
INVARIANT TypeOK
PROPERTY ContractSpec
