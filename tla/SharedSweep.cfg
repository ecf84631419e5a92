SPECIFICATION Spec
CONSTANTS
    n1 = n1
    n2 = n2
    d1 = d1
    d2 = d2
    Sites = {s1, s2}
    Names = {n1, n2}
    Databases = {d1, d2}
    Identifier <- Apart
    NoSite = NoSite
    NoName = NoName
    NoDatabase = NoDatabase
    Teardowns = {k1}
    Sweeps = {w1}
PROPERTY SweepSparesLaunches
CHECK_DEADLOCK FALSE
