SPECIFICATION Spec
CONSTANTS
    Page = 2
    History = 0
    Cold = FALSE
    Updates = 1
    Mishaps = 1
INVARIANT CommitsAnnounced
