SPECIFICATION Spec
CONSTANTS
    Users = {u1}
    Clients = {a1}
    Scopes = {r, w}
    Codes = {c1, c2}
    Grants = {g1, g2}
    Tokens = {t1, t2, t3}
    None = None
    Tabs = {b1}
    MaxVersion = 1
    MaxDeciding = 1
INVARIANTS
    TypeOK
    OneLiveGrant
    OneGrantPerCode
    OneRefreshToken
    ScopesOnlyNarrow
    CutApprovalsStayCut
PROPERTY ImplementsApprovals
SYMMETRY Symmetry
