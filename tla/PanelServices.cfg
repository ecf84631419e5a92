SPECIFICATION PanelSpec
CONSTANTS
    Launches = {l1, l2}
    Ticks = {t1, t2}
    NoLaunch = NoLaunch
    Jobs = {j1, j2}
    Total = 3
    Builds = {b1, b2}
    Tags = {default, other}
    DefaultTag = default
    NoBuild = NoBuild
    SnapSites = {s1, s2}
    CloneSites = {s2}
    Calls = {c1, c2}
    MaxSnapshots = 1
    MaxDrawn = 2
    NoSite = NoSite
    Events = {e1, e2}
    Recipients = {r1}
    NoOne = NoOne
    MaxRestarts = 1
    Invoices = {i1, i2}
    Proofs = {p1, p2}
    Methods = {m1}
    NoInvoice = NoInvoice
    Projects = {pA, pB}
    Columns = {k1, k2}
    Cards = {d1, d2, d3}
    NoColumn = NoColumn
    NoProject = NoProject
    MaxIndex = 3
    MaxListed = 2
    Files = {f1}
    MaxBeats = 3
    MaxOverdue = 1
    MaxSince = 2
    MaxQueue = 2
    MaxBatch = 1
INVARIANTS
    PanelTypeOK
    LaunchedOnceUnlessShared
    SitesAccountedFor
    LatestFollowsDefault
    SnapshotLimit
    RowsHaveArchives
    BadgeTellsContent
    MailedOnceUnlessRaced
    AwaitingHasPending
    IssuedNumbersStay
    CardsInOrder
    ColumnsInOrder
    BeatsCountedOnce
PROPERTIES
    DueLaunchesTaken
    NoSiteAfterCancel
    BulkJobsEnd
    BuildsFinish
    SuppressedNeverMailed
    PendingNewsArrives
    SettledInvoicesStay
    BacklogDrains
CHECK_DEADLOCK FALSE
