SPECIFICATION Spec
CONSTANTS
    Cap = 2
    PendingMax = 1
    Text <- MCText
    Chars <- MCChars
    KeyBytes <- JunkKeyBytes
    Files <- MCFiles
    MaxLine = 2
    MaxEnters = 1
PROPERTY JunkNeverLands
