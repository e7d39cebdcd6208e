CONSTANTS
    h1 = h1
    h2 = h2
    h3 = h3
    Handlers = {h1, h2, h3}
    e1 = e1
    Emails = {e1}
    Ops = {"create", "read", "update", "refresh", "deactivate", "verify", "reissue"}
    Faults = {"redis", "service"}
SPECIFICATION Spec
SYMMETRY Perms
INVARIANT TypeOK
INVARIANT IInv
INVARIANT LockIsReturned
INVARIANT VersionNamesOneCommit
INVARIANT ReadsNotStale
INVARIANT DirtyReadsOnlyOfFailed
CHECK_DEADLOCK FALSE
PROPERTY ImplementsVersionedUser
