SPECIFICATION FairSpec
CONSTANTS
    A = A
    F = F
    G = G
    n1 = n1
    n2 = n2
    all = all
    j1 = j1
    j2 = j2
    Profiles = {A, F, G}
    NoProfile = NoProfile
    Nets <- NetsOf
    Full = {F, G}
    Stated <- StatedOf
    Jobs = {j1, j2}
    TTL = 1
    Settings <- AllSettings
INVARIANTS NoDoubledNetwork OneFullTunnel OneRejectedLogin DnsWithTunnel
PROPERTIES EitherVersionConnects ShownBecomesTrue
