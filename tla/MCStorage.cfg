SPECIFICATION MCSpec
CONSTANTS
    kept = kept
    old = old
    dated = dated
    undated = undated
    fresh = fresh
    none = none
    Sessions <- MCSessions
    Existing <- MCExisting
    Archived = {undated}
    Keep = kept
    Cutoff = 3
    Created <- MCCreated
    Checkpointed <- MCCheckpointed
    Undated = none
    Absent = Absent
    NoMarker = NoMarker
    Procs = {p, q}
    Attempts = 2
    Crashes = 2
    Alterations = 1
    Workspaces = {1, 2, 3}
    Flows = {"g", "h"}
    Bridges = {1, 2}
    Workers = {"d1", "d2"}
    Nobody = "nobody"
    Home <- MCHome
    Place <- MCPlace
    Imported <- MCImported
    Registered <- MCRegistered
    Operations = 2
    WorkerCrashes = 2
    Edits = 1
    Together = 2
    Releases = {1, 2, 3}
    Unstartable = {3}
    Clients = {c1, c2}
    MaxRequests = 2
    MaxFaults = 2
INVARIANTS
    SessionsSurvive
    RecoveryCompletes
    ReadersSeeWhole
    OperationsSettle
    UpdatesSafe
PROPERTY
    InstalledIsVerified
SYMMETRY ProgramsAlike
CHECK_DEADLOCK FALSE
