SPECIFICATION FairSpec
CONSTANTS
    Restarts = 1
    MayReject = FALSE
    MayFail = FALSE
    MayTimeout = FALSE
PROPERTIES RestartIsReleased
