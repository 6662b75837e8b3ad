SPECIFICATION MCSpec
CHECK_DEADLOCK FALSE
CONSTANTS
    NameOrder <- MCNames
    MaxDepth = 5
    MaxWindowItems = 4
    Strategies <- MCStrategies
    External <- MCExternal
    Library <- MCLibrary
    Candidates <- MCCandidates
    LimitSets <- MCLimitSets
    Generous <- MCGenerous
    Representations <- MCRepresentations
    MaxEdits = 1
    Defs <- MCDefs
    Shape <- ShapeOf
    Frontier <- NodesOf
    Sequential = {"A", "B", "C"}
    Prepared = {"a2", "b"}
    MaxStep = 1
    MaxBatches = 2
    MaxCrashes = 2
    None = None
    Procs = {p1, p2}
    Sources = {s}
    Bridge = b
    Package = f
    Imports = {i, j}
    Runs = {r}
    Nobody = Nobody
    Tasks = {t1, t2}
INVARIANTS
    
    StepsFit
    ContentKept
    ContextSound
    SourcesReadBack
PROPERTY
    StepsKeep
SYMMETRY Symmetry
