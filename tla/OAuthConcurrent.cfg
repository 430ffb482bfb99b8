SPECIFICATION Spec
CONSTANTS
    h1 = h1
    h2 = h2
    h3 = h3
    c1 = c1
    c2 = c2
    Handlers = {h1, h2}
    Clients = {c1}
    Users = {1}
    None = None
    MaxAccounts = 2
    MaxBumps = 1
    MaxGrant = 1
    MaxCreds = 5
SYMMETRY Symmetry
INVARIANTS RedeemedOnce GrantInvariant ApprovedByCurrentSession
PROPERTY RevokeIsExact
