CONSTANTS
    r1 = r1
    r2 = r2
    r3 = r3
    g1 = g1
    Rotations = {r1, r2, r3}
    Readers = {g1}
    MaxSecond = 4
SPECIFICATION Spec
SYMMETRY Perms
INVARIANT TypeOK
INVARIANT IInv
INVARIANT LiveTokenIsHeld
INVARIANT ComparedCopyIsCurrent
INVARIANT ReplayIsRefused
CHECK_DEADLOCK FALSE
