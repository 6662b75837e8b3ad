SPECIFICATION MCSpec
CONSTANTS
    cmd = cmd
    rte = rte
    e1 = e1
    e2 = e2
    a1 = a1
    a2 = a2
    Calls = {cmd, rte}
    Executors = {e1, e2}
    Arguments = {a1, a2}
    Kind <- MCKind
    MaxAttempts = 2
    Jobs = {"exec", "write", "read"}
    Bytes = {"a", "nl"}
    NewLine = "nl"
    Buffer = 2
    Output = 4
    MaxLines = 2
    MaxBytes = 3
    Timeouts = {TRUE}
    Writers = {"w1", "w2"}
    FilesRead <- MCFiles
    ModelCalls = {"c1", "c2"}
    Items <- MCItems
    Styles <- MCStyles
    MaxChanges = 1
    MaxFaults = 1
    Sessions = {1, 2, 3}
    Home = 1
    Foreign <- MCForeign
    MaxEvents = 6
    MaxTasks = 3
    Faults = 2
SYMMETRY ExecutorSymmetry
INVARIANTS
    EffectAtMostOnce
    ReturnedResultIsDurable
    NothingLeft
    StreamsExact
    RefreshedOnce
    ArchivesWhole
    SequencesFresh
PROPERTIES
    RecordsStable
    ImplementsEffectOnce
CHECK_DEADLOCK FALSE
