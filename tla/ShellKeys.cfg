CONSTANTS
    Pids = {p1, p2}
    MAXJOBS = 2
    MaxJid = 3
SPECIFICATION Spec
INVARIANT EndsOnlyOnRequest
CHECK_DEADLOCK FALSE
