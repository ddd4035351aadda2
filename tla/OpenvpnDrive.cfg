SPECIFICATION FairSpec
CONSTANTS
    Restarts = 2
    MayReject = TRUE
    MayFail = TRUE
    MayTimeout = TRUE
INVARIANTS UpMeansPushed
PROPERTIES HoldIsReleased
