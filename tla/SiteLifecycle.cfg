SPECIFICATION Spec
CONSTANTS
    Sites = {s1, s2}
    Names = {n1, n2}
    Containers = {c1, c2}
    NoSite = NoSite
    NoName = NoName
    NoContainer = NoContainer
    Caps <- OneAtATime
    Scopes <- AllRows
    Permanent <- None
    DirectAccess <- None
    MaxRemovals = 1
    MaxRestarts = 0
INVARIANTS TypeOK LimitsHeld NamesHeld NoLiveSiteTornDown
PROPERTY ImplementsReservation
SYMMETRY Symmetry
