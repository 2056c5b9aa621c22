SPECIFICATION Spec
CONSTANTS
    task = task
    user = user
    name = name
    caller = caller
    callerName = callerName
    agent = agent
    token = token
    because = because
    None = None
    Runs = {r1, r2}
    Tables = {task, user}
    Fields = {name, caller, callerName}
    Prefixes <- DotWalks
    Snippets <- Calls
    InOrder = TRUE
    Rollouts <- Deploys
    Requests <- Asked
    PolicyName = agent
    ScopeMode = 2
    RpcLimit = 2
SYMMETRY Symmetry
\* With InOrder = FALSE instead: SameTermsApplyOnce
INVARIANT KeyAppliesOnce
CHECK_DEADLOCK FALSE
