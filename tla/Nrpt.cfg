SPECIFICATION Spec
CONSTANTS
    A = A
    B = B
    t1 = t1
    t2 = t2
    dot = dot
    corp = corp
    zone = zone
    Conns = {A, B}
    NoConn = NoConn
    Namespaces = {dot, corp, zone}
    CatchAll = dot
    Canon <- Itself
    Threads = {t1, t2}
    Svc = Svc
    Settings <- AllSettings
INVARIANTS ClaimExclusive RecordedRulesStand Accounted
PROPERTIES OthersRulesStand
