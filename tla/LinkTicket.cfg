SPECIFICATION Spec
CONSTANTS
    ann = ann
    bob = bob
    annsAccount = annsAccount
    bobsAccount = bobsAccount
    oldAccount = oldAccount
    Users <- OneUser
    Own <- OneOwn
    LinkedBefore <- NeverLinked
    Accounts = {annsAccount}
    Tickets = {t1}
    Visits = {v1, v2}
    Callbacks = {c1}
    TicketTtl = 1
    StateTtl = 1
    MaxTime = 2
    None = None
INVARIANT TicketIsOneShot
CHECK_DEADLOCK FALSE
