CONSTANTS
    m1 = m1
    Messages = {}
    MaxTasks = 2
    MaxCheckpoints = 3
    MaxFaults = 0
    MaxRestarts = 0
SPECIFICATION Spec
CHECK_DEADLOCK FALSE
INVARIANTS
    AnswerClaimPreserved
