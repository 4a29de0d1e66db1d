CONSTANTS
    MaxAttempts = 2
    Session = {s1, s2}
    NoSession = NoSession
    Version = {v1, v2}
SPECIFICATION Spec
CHECK_DEADLOCK FALSE
SYMMETRY Symmetry
PROPERTY AcceptedOnProof
PROPERTY CondemnedWithCause
