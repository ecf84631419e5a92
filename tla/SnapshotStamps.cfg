SPECIFICATION SnapshotsSpec
CONSTANTS
    SnapSites = {s1}
    CloneSites = {}
    Calls = {c1}
    MaxSnapshots = 1
    MaxDrawn = 1
    NoSite = NoSite
PROPERTY StampsFollowRestores
CHECK_DEADLOCK FALSE
