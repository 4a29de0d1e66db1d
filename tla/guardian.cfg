CONSTANTS
    Reconciler = {w1, w2}
    Nobody = Nobody
    MaxFaults = 1
SPECIFICATION FairSpec
CHECK_DEADLOCK FALSE
INVARIANT CommandOnRecord
INVARIANT StrangerSpared
INVARIANT ResultAfterReap
PROPERTY LauncherResolved
