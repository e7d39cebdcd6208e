CONSTANTS
    r1 = r1
    r2 = r2
    p1 = p1
    Requests = {r1, r2}
    Processes = {p1, p2}
    MaxSends <- Sends
    MaxCrashes = 1
SPECIFICATION MCSpec
INVARIANT IInv
INVARIANT ReplyIsKept
INVARIANT RepliesBounded
PROPERTY ImplementsRemoteCall
PROPERTY EveryRequestSettles
CHECK_DEADLOCK FALSE
