CONSTANTS
    Reconciler = {w1, w2}
    Nobody = Nobody
    MaxFaults = 2
SPECIFICATION Spec
CHECK_DEADLOCK FALSE
SYMMETRY Symmetry
INVARIANT GitOnlyWhileRecorded
INVARIANT TreeFollowsOperation
PROPERTY CompletionWhole
PROPERTY ImplementsWorkspace
