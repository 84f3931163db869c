SPECIFICATION Spec
CONSTANTS
    Span <- MCSpan
    ArenaOrder <- MCArenaOrder
    StateOrder <- MCStateOrder
    SizeMax <- MCSizeMax
    Requests <- MCRequests
    MaxMallocs = 3
INVARIANTS
    GuardsTellTheTruth
    ArenasIntact
    CountersBalance
    DoubleFreeIsNamed
PROPERTY UserContract
