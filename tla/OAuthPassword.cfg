SPECIFICATION Spec
CONSTANTS
    Users = {u1}
    Clients = {a1}
    Scopes = {r}
    Codes = {c1}
    Grants = {g1}
    Tokens = {t1}
    None = None
    Tabs = {b1, b2}
    MaxVersion = 1
    MaxDeciding = 1
INVARIANT OutdatedApprovalsEnd
