CONSTANTS
    h1 = h1
    h2 = h2
    h3 = h3
    Handlers = {h1, h2, h3}
    e1 = e1
    Emails = {e1}
    Ops = {"read", "update"}
    Faults = {"service"}
SPECIFICATION Spec
INVARIANT RolledBackIsInvisible
CHECK_DEADLOCK FALSE
