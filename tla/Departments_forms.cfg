CONSTANTS
    n1 = n1
    l1 = l1
    Depts = {d1, d2}
    Names = {n1}
    Logins = {l1}
    Exact <- NoExact
    Qualified <- WithDomain
    Groups = {1, 2}
    Priorities = {0, 1}
    OfferedForms <- TwoForms
    Jobs = {j1}
    UserOf <- OneUser
    Threads = {t1, t2}
    Deleters = {t1}
    None = None
    Missing = Missing
SYMMETRY Symmetry
SPECIFICATION CalmSpec
INVARIANT TypeOK
PROPERTIES DeletionMovesAll LockedUntouched AppliedOutranks
