SPECIFICATION Spec
CONSTANTS
    Page = 2
    History = 1
    Cold = TRUE
    Updates = 2
    Mishaps = 0
INVARIANT CacheServesCommitted
