SPECIFICATION Spec
CONSTANTS
    Names = {"default", "narrow"}
    Unset = Unset
    Malformed = Malformed
    NotText = NotText
    Fails = Fails
    None = None
    ann = ann
    bob = bob
    annsAccount = annsAccount
    oldAccount = oldAccount
    Shared = Shared
    t1 = t1
    t2 = t2
    t3 = t3
    t4 = t4
    f1 = f1
    f2 = f2
    staff = staff
    guests = guests
    Calls = {1, 2}
    Users <- TwoUsers
    Isolates = {w1}
    GroupsOf <- Members
    Own <- OwnAccounts
    LinkedBefore <- Before
    Sees <- RowsSeen
    Dictionary <- Fields
    Parent <- Extends
    TableSeq <- AllTables
    Asks <- TwoAsks
    Deployed <- AllReleases
    Later <- Production
    Followed <- Settled
    ChunkSize = 3
    PageCap = 2
    MaxHops = 3
    PrincipalTtl = 0
    SchemaTtl = 2
INVARIANT ShownIsPermitted
INVARIANT SchemaIsOwn
INVARIANT ListsAreHonest
INVARIANT MissesAreLed
PROPERTY GatesAreClosed
CHECK_DEADLOCK FALSE
