CONSTANTS
    first = first
    second = second
    Lane = {first, second}
    LaneRole <- SameRole
    LaneNo <- InPool
    GlobalSlots = 2
    NoClaim = NoClaim
    MaxDisturbances = 2
    Item = {i1}
    Resource = {}
    Registered = {}
    Limit <- NoLimit
    MaxLimit = 1
    Owner = {}
    Stage = {s1}
    Session = {c1}
    Reconciler <- MCReconciler
    Free = Free
    NoSession = NoSession
    Nobody = Nobody
    MaxJobs = 1
    MaxClaims = 2
    MaxAttempts = 2
    GlobalLimit = 2
    RoleLimit <- TwoOfEachRole
SPECIFICATION StubbornSpec
CHECK_DEADLOCK FALSE
INVARIANT CancelOnlyLost
INVARIANT NoClaimForgotten
INVARIANT ShutdownGivesBack
INVARIANT HeartbeatPrecedes
INVARIANT FailureBudget
PROPERTY UnwantedWorkersStop
PROPERTY ClaimsEnd
