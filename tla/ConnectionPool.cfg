CONSTANTS
    Requests = {q1, q2, q3}
    Conns = {c1, c2}
SPECIFICATION Spec
INVARIANT TypeOK
INVARIANT IInv
INVARIANT HaltCause
PROPERTY EveryRequestEnds
CHECK_DEADLOCK FALSE
