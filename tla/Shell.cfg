CONSTANTS
    Pids = {p1, p2, p3}
    MAXJOBS = 2
    MaxJid = 3
SPECIFICATION FairSpecByJid
INVARIANTS TableAgrees ChildrenKnown ForegroundAwaited
PROPERTY PromptComesBack
CHECK_DEADLOCK FALSE
