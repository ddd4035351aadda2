SPECIFICATION Spec
CONSTANTS
    Names = {n1, n2}
    NoName = NoName
    Threads = {t1, t2}
    Svc = Svc
    Procs = {p1, p2, p3}
    NoProc = NoProc
    MaxTunnels = 2
    StagingMayFail = FALSE
    MayCrash = TRUE
SYMMETRY Symmetry
INVARIANT Inv
INVARIANT SecretsOwned
INVARIANT SharedAdapterIsDying
INVARIANT NamesakesBounded
PROPERTY OthersStay
PROPERTY ImplementsPool
