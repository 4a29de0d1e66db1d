CONSTANTS
    worktree = worktree
    tenant = tenant
    Free = Free
    NoSession = NoSession
    Nobody = Nobody
    Item = {i1}
    Resource = {}
    Registered <- MCRegistered
    Limit <- MCLimit
    MaxLimit = 2
    Owner = {}
    Stage = {s1}
    Session = {c1}
    Reconciler = {}
    MaxJobs = 1
    MaxClaims = 1
    MaxAttempts = 1
    GlobalLimit = 1
    RoleLimit <- OneOfEachRole
SPECIFICATION Spec
CHECK_DEADLOCK FALSE
INVARIANT InterruptStaysApplicable
