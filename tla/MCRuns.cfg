CONSTANTS
    Messages = {m1}
    MaxTasks = 3
    MaxCheckpoints = 3
    MaxFaults = 1
    MaxRestarts = 1
SPECIFICATION MCSpec
CHECK_DEADLOCK FALSE
INVARIANTS
    RunsAreOwned
    FrontierSaved
    MessagesSettled
    AnswersKept
    AbortWins
