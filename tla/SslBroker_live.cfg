SPECIFICATION FairSpec
CONSTANTS
    Names = {n1}
    NoName = NoName
    Threads = {t1, t2}
    Svc = Svc
    Procs = {p1, p2}
    NoProc = NoProc
    MaxTunnels = 1
    StagingMayFail = TRUE
    MayCrash = TRUE
PROPERTY Answered
PROPERTY StopEnds
