SPECIFICATION Spec
CONSTANTS
    Requests = {r1, r2}
    Links = {l1}
    Accounts = {own, other}
    OwnAccounts = {own}
    SharedAccount = shared
    Modes <- PerUserOnly
    Rotates = FALSE
    AccessLife = 1
    PrincipalTtl = 1
    OneChange = TRUE
    MaxTime = 2
    MaxIssued = 3
    MaxRoles = 0
    MaxKek = 0
    None = None
PROPERTY RefreshIsNotClobbered
CHECK_DEADLOCK FALSE
