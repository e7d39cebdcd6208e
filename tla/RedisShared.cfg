CONSTANTS
    c1 = c1
    c2 = c2
    c3 = c3
    c4 = c4
    Calls = {c1, c2, c3, c4}
    Lookups = {c3, c4}
    Drops = FALSE
SPECIFICATION Spec
INVARIANT TypeOK
INVARIANT IInv
INVARIANT OnlyOverlapsHarm
CHECK_DEADLOCK FALSE
