CONSTANTS
    Gates = {"focused"}
    Required <- MCRequired
    Version = {1, 2}
    First = 1
    MaxPlans = 2
    MaxAdmissions = 2
    MaxClaims = 2
    MaxFailures = 2
    MaxChanges = 0
SPECIFICATION Spec
CHECK_DEADLOCK FALSE
PROPERTY ReleaseRefusedWithoutAuthority
