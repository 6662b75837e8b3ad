SPECIFICATION FairSpec
CONSTANTS
    Page = 1
    History = 1
    Cold = TRUE
    Updates = 3
    Mishaps = 2
INVARIANT ViewsReplay
PROPERTY FollowerCatchesUp
