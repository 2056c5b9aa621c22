SPECIFICATION Spec
CONSTANTS
    f1 = f1
    f2 = f2
    readers = readers
    writers = writers
    editors = editors
    admins = admins
    visitors = visitors
    narrow = narrow
    wide = wide
    other = other
    Flows <- TwoFlows
    Browsers = {b1, b2}
    People = {ann, bob}
    Callbacks = {c1, c2}
    Posts = {q1, q2}
    Operator = operator
    ScopeMode <- WriteScope
    GroupPolicy <- PolicyMap
    DefaultPolicy = narrow
    GroupLists <- OneList
    Ttl = 1
    AccessTtl = 1
    MaxPerWindow = 2
    MaxKeys = 2
    Window = 2
    MaxTime = 4
    MaxLists = 1
    Horizon <- Still
    Crowded = {"operator_secret"}
    None = None
SYMMETRY Symmetry
INVARIANT RateLimitIsExact
INVARIANT GrantsAreFinal
INVARIANT GrantIsSignersOwn
INVARIANT AuthorityIsVouched
CHECK_DEADLOCK FALSE
