SPECIFICATION Spec
CONSTANTS
    Requests = {r1, r2}
    Links = {l1}
    Accounts = {own, other}
    OwnAccounts = {own}
    SharedAccount = shared
    Modes <- BothModes
    Rotates = FALSE
    AccessLife = 1
    PrincipalTtl = 1
    OneChange = TRUE
    MaxTime = 2
    MaxIssued = 2
    MaxRoles = 1
    MaxKek = 1
    None = None
SYMMETRY Symmetry
INVARIANT SignedActorOwnsBearer
INVARIANT RolesAreRecent
INVARIANT ReauthHasACause
CHECK_DEADLOCK FALSE
