SPECIFICATION FairSpec
CONSTANTS
    l1 = l1
    l2 = l2
    f = f
    site = site
    scx = scx
    ovpn = ovpn
    Links = {l1, l2}
    Files = {f}
    Nothing = Nothing
    Id <- Ids
    Ext <- Exts
INVARIANTS OneLandsPerClick
PROPERTIES WrittenWasShown LinkIsShown
CHECK_DEADLOCK FALSE
