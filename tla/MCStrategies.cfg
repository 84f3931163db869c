SPECIFICATION StrategiesSpec
CONSTANTS
    Span <- MCSpan
    SizeMax <- MCSizeMax
    Sizes <- MCSizes
    ArenaOrder = 8
    StateOrder = 5
    BuddySizes <- MCBuddySizes
INVARIANTS
    WellTagged
    HeldBlocks
    StartsAreTheWalk
    ListsCoverHeap
    MergedAndCounted
PROPERTIES
    ContractSpec
    BuddyContract
