SPECIFICATION FairSpec
CONSTANTS
    MaxPid = 3
    MaxStages = 2
    Shell = ShellGroup
INVARIANTS
    TypeOK
    TerminalOwner
    NoLostChild
    JobsTellTheTruth
PROPERTIES
    ForegroundReturns
    FlaggedDoneIsAnnounced
