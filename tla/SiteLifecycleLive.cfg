SPECIFICATION FairSpec
CONSTANTS
    Sites = {s1}
    Names = {n1}
    Containers = {c1, c2}
    NoSite = NoSite
    NoName = NoName
    NoContainer = NoContainer
    Caps <- OneAtATime
    Scopes <- AllRows
    Permanent <- None
    DirectAccess <- AllSites
    MaxRemovals = 1
    MaxRestarts = 1
INVARIANT RowsOwnTheirContainers
PROPERTIES OrphansAreRemoved DeadRowsExpire LaunchSettles
