CONSTANTS
    first = first
    second = second
    Lane = {first, second}
    LaneRole <- TwoStages
    LaneNo <- FirstOfEach
    GlobalSlots = 1
    NoClaim = NoClaim
    MaxDisturbances = 1
    Item = {i1}
    Resource = {}
    Registered = {}
    Limit <- NoLimit
    MaxLimit = 1
    Owner = {}
    Stage = {s1}
    Session = {}
    Reconciler <- MCReconciler
    Free = Free
    NoSession = NoSession
    Nobody = Nobody
    MaxJobs = 2
    MaxClaims = 2
    MaxAttempts = 2
    GlobalLimit = 2
    RoleLimit <- TwoOfEachRole
SPECIFICATION FairSpec
CHECK_DEADLOCK FALSE
PROPERTY ClaimableIsClaimed
PROPERTY RunsEnd
