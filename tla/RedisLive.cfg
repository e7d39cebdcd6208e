CONSTANTS
    c1 = c1
    c2 = c2
    c3 = c3
    Calls = {c1, c2, c3}
    Lookups = {c3}
    Drops = TRUE
SPECIFICATION FairSpec
INVARIANT CommandsAreAnswerable
INVARIANT FlagErrsByOthers
PROPERTY EveryCallEnds
CHECK_DEADLOCK FALSE
