CONSTANTS
    worktree = worktree
    tenant = tenant
    Free = Free
    NoSession = NoSession
    Nobody = Nobody
    Item = {i1, i2}
    Resource = {worktree, tenant}
    Registered <- MCRegistered
    Limit <- MCLimit
    MaxLimit = 2
    Owner = {o1}
    Stage = {s1}
    Session = {}
    Reconciler = {}
    MaxJobs = 1
    MaxClaims = 1
    MaxAttempts = 1
    GlobalLimit = 2
    RoleLimit <- OneOfEachRole
SPECIFICATION Spec
CHECK_DEADLOCK FALSE
SYMMETRY Permutation
INVARIANT ResourcesFollowJob
INVARIANT ConcurrencyLimits
INVARIANT RecoveryNeverBlocked
PROPERTY ImplementsWorkflow
