CONSTANTS
    Users = {1, 2, 3}
    Login <- SharedLogin
    Tokens = {t1, t2}
    Requests = {r1, r2}
    Attempts = {a1}
    Mistyped = {1}
    Consoles = {c1}
    OfferedRoles = {"superadmin", "viewer"}
    LockoutThreshold = 2
    NoUser = NoUser
SYMMETRY Symmetry
SPECIFICATION CalmSpec
INVARIANTS TypeOK SessionsHaveUser AuditTellsState TemporaryPasswordUnused
PROPERTY SuperadminRemains
