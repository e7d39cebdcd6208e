CONSTANTS
    h1 = h1
    h2 = h2
    h3 = h3
    Handlers = {h1, h2, h3}
    e1 = e1
    e2 = e2
    Emails = {e1, e2}
    Ops = {"create", "update", "refresh", "deactivate", "verify", "reissue", "emailFlag"}
    Faults = {}
SPECIFICATION Spec
SYMMETRY Perms
INVARIANT WritersInv
INVARIANT QuiescentCacheIsFresh
PROPERTY TokenWritersKeepStatus
CHECK_DEADLOCK FALSE
