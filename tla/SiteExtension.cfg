SPECIFICATION Spec
CONSTANTS
    Sites = {s1, s2}
    Names = {n1}
    Containers = {c1, c2}
    NoSite = NoSite
    NoName = NoName
    NoContainer = NoContainer
    Caps <- OneAtATime
    Scopes <- AllRows
    Permanent <- None
    DirectAccess <- None
    MaxRemovals = 1
    MaxRestarts = 0
INVARIANT ExtensionHonoured
