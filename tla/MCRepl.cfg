SPECIFICATION Spec
CONSTANTS
    Sessions <- MCSessions
INVARIANTS
    AcceptsTheLanguage
    LinesReadAlike
    ExpandsAsWritten
    UnfinishedCanComplete
CHECK_DEADLOCK FALSE
