CONSTANTS
    worktree = worktree
    tenant = tenant
    Free = Free
    NoSession = NoSession
    Nobody = Nobody
    Item = {i1}
    Resource = {}
    Registered <- MCRegistered
    Limit <- MCLimit
    MaxLimit = 2
    Owner = {}
    Stage = {s1}
    Session = {c1}
    Reconciler = {w1}
    MaxJobs = 2
    MaxClaims = 3
    MaxAttempts = 1
    GlobalLimit = 1
    RoleLimit <- OneOfEachRole
SPECIFICATION Spec
CHECK_DEADLOCK FALSE
INVARIANT TypeOK
INVARIANT TablesAgree
INVARIANT ProcessKeepsJob
INVARIANT ResumeStaysExact
INVARIANT SessionLineage
PROPERTY EndedAttemptFrozen
PROPERTY LapsedOnlyExpires
PROPERTY InterruptBeatsResult
