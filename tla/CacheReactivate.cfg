CONSTANTS
    h1 = h1
    h2 = h2
    Handlers = {h1, h2}
    e1 = e1
    Emails = {e1}
    Ops = {"update", "deactivate"}
    Faults = {}
SPECIFICATION FairSpec
PROPERTY UpdateNeverActivates
CHECK_DEADLOCK FALSE
