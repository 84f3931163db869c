SPECIFICATION FairSpec
CONSTANTS
    MaxPid = 1
    MaxStages = 1
    Shell = ShellGroup
PROPERTY DoneIsAnnounced
