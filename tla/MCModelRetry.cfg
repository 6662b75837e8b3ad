CONSTANTS
    Texts = {1, 2}
    Layouts <- MCPaired
    Answers <- MCAnswers
    Granted = {"patch", "flow", "read"}
    Commands = {1}
    MaxSteps = 4
    MaxTries = 4
    Mishaps = 1
    Outside = 0
    Together = 1
SPECIFICATION TurnsSpec
INVARIANT RetryReachesModel
CHECK_DEADLOCK FALSE
