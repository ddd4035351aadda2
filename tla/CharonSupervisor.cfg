SPECIFICATION FairSpec
CONSTANTS
    Callers = {c1}
    Svc = Svc
    Retry = Retry
    Procs = {p1, p2, p3}
    NoProc = NoProc
    Foreign = Foreign
    Nobody = Nobody
    MayForeign = TRUE
    MayCrash = TRUE
PROPERTY HandleKept
PROPERTY StopEnds
PROPERTY BootRaceRecovers
