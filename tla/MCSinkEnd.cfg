SPECIFICATION FairSpec
CONSTANTS
    Nodes = {n1}
    Capacity = 1
    Events = 1
    Attempts = 0
CHECK_DEADLOCK FALSE
PROPERTY EndIsReported
