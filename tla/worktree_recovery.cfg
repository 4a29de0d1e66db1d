CONSTANTS
    Reconciler = {w1}
    Nobody = Nobody
    MaxFaults = 2
SPECIFICATION FairSpec
CHECK_DEADLOCK FALSE
PROPERTY OperationResolved
PROPERTY ExactStateAdopted
