SPECIFICATION Spec
CONSTANTS
    Conns = {c1, c2}
    Domains = {d1, d2}
    None = None
    Charons = {p1, p2}
    SslNames = {s1}
    MaxRequests = 4
    MaxVersion = 2
    SslVersions = {1}
INVARIANTS
    NothingOutlivesUninstall
    ServersComeBack
    NotStaleMeansCurrent
SYMMETRY Interchangeable
CHECK_DEADLOCK FALSE
