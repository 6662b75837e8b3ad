SPECIFICATION MCSpec
CHECK_DEADLOCK FALSE
CONSTANTS
    c1 = c1
    c2 = c2
    r1 = r1
    r2 = r2
    Nobody = Nobody
    Boot = Boot
    Calls = {c1, c2}
    Tools = {c2}
    Conditions = {c2}
    Asks = {c1}
    Step <- MCStep
    RouteIds = {r1, r2}
    Mode <- MCMode
    Eligible <- MCEligible
    Values = {"a", "b"}
    RootValue <- MCRootValue
    KidValue <- MCKidValue
    Plans = 2
    Inputs <- MCInputs
    Faults = 2
    Edit = "b"
    Texts = {1, 2}
    Layouts <- MCLayouts
    Answers <- MCAnswers
    Granted = {"patch", "flow", "read"}
    Commands = {1}
    MaxSteps = 4
    MaxTries = 4
    Mishaps = 2
    Outside = 2
    Together = 2
INVARIANTS
    VisitsFixed
    PublicationsLinear
    LaunchesAccounted
    PassagesRepeat
    CallsSound
PROPERTY
    RecordsForward
