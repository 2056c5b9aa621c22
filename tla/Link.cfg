SPECIFICATION FairSpec
CONSTANTS
    ann = ann
    bob = bob
    annsAccount = annsAccount
    bobsAccount = bobsAccount
    oldAccount = oldAccount
    Users <- TwoUsers
    Own <- OwnAccounts
    LinkedBefore <- Before
    Accounts = {annsAccount, bobsAccount, oldAccount}
    Tickets = {t1}
    Visits = {v1, v2}
    Callbacks = {c1, c2}
    TicketTtl = 1
    StateTtl = 1
    MaxTime = 3
    None = None
INVARIANT LinkIsOwn
CHECK_DEADLOCK FALSE
INVARIANT LinksAreUsedOnce
PROPERTY RecordsAreErased
