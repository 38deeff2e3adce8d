CONSTANTS
    s = 5
    E = 1
    b = 5
    TagBits = 20
    Addrs = {}
    MaxAccesses = 0
    SmallAddrs = {0, 1, 2, 4, 6, 8}
SPECIFICATION MCSpec
INVARIANT TransposesGraded
INVARIANT PuzzlesSolved
INVARIANT RangesKnown
INVARIANT FailuresHandled
INVARIANT TimesRight
INVARIANT CommandsParsed
PROPERTY SimulatorIsACache
PROPERTY RightPackagePasses
CHECK_DEADLOCK FALSE
