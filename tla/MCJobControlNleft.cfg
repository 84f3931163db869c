SPECIFICATION Spec
CONSTANTS
    MaxPid = 2
    MaxStages = 2
    Shell = ShellGroup
INVARIANT GoneMeansDone
