SPECIFICATION MCFairSpec
CONSTANTS
    Nodes = {n1, n2}
    Capacity = 1
    Events = 3
    Attempts = 2
CHECK_DEADLOCK FALSE
INVARIANTS AllAccounted GuardsWakeReceiver
PROPERTIES InOrder SlotsAreEmptied LaunchesEnd PermitsReturn
