SPECIFICATION Spec
CONSTANTS
    Sessions <- EscapeSessions
INVARIANT EscapedIsLiteral
CHECK_DEADLOCK FALSE
