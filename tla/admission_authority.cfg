CONSTANTS
    Gates = {"focused", "three"}
    Required <- MCRequired
    Version = {1, 2}
    First = 1
    MaxPlans = 2
    MaxAdmissions = 2
    MaxClaims = 2
    MaxFailures = 2
    MaxChanges = 2
SPECIFICATION Spec
CHECK_DEADLOCK FALSE
INVARIANT PreparedWhileRunning
PROPERTY VerifiedOnEvidence
PROPERTY AuthorityBehindSteps
